---- MODULE Spec2Model ----
(***************************************************************************)
(* A model of tsmr (leondreamed/ts-mono): the read interception installed  *)
(* by patchEslint, the installer gate (setupLintAndTypecheck) with the     *)
(* readiness query (shouldPackageBeChecked), and the compiler wrappers     *)
(* buildTypecheckFolder (generate) and typecheck (validate).               *)
(*                                                                         *)
(* A path is the sequence of its segments: "/w/a/src/index.ts" is          *)
(* <<"w", "a", "src", "index.ts">>.  A file's text is a sequence of        *)
(* tokens.  `null`/`undefined` paths are the empty sequence.               *)
(***************************************************************************)
EXTENDS Integers, Sequences, FiniteSets, TLC

VARIABLES
    \* ---- the file system and the interception controller (eslint.cts)
    onDisk,                     \* the set of paths that exist on disk
    contents,                   \* path -> text of the file on disk
    currentTypescriptSourceFile,\* globalThis.currentTypescriptSourceFile
    narrow,                     \* the path of the narrow read in flight, or NoPath
    lastNarrow,                 \* how the last finished narrow read ended
    tsConfigToFileReplacer,     \* the config paths with a memoized replacer
    constructed,                \* the config path of every replacer constructed, in order
    lastCall,                   \* the wrapped fs call the latest step made, if it made one
    \* ---- the workspace, the installer gate and the readiness query
    manifests,                  \* package directory -> its package.json
    nodeModules,                \* the package directories that hold a node_modules folder
    metadata,                   \* package directory -> its node_modules/metadata.json
    turboHash,                  \* process.env.TURBO_HASH is defined
    gatePc,                     \* where setupLintAndTypecheck stands
    gateRuns,                   \* the runs of setupLintAndTypecheck started so far
    packageNamesWithoutNodeModules, \* the names the running gate recorded
    markersLeft,                \* the recorded names whose marker is not written yet
    installLog,                 \* the --filter set of every pnpm install, in order
    buildLog,                   \* the exit code of every turbo build-typecheck, in order
    gateInstalled,              \* the packages the gate installed and marked, marker not cleared
    lastCheck,                  \* the shouldPackageBeChecked call the latest step made
    \* ---- one run of typecheck (validate) or buildTypecheckFolder (generate)
    op,                         \* the operation the command called, "none" before
    opPc,                       \* where the operation stands
    processExit,                \* process.exit: "original" or the "capture"
    exitCodePromise,            \* <<the exit code exitCodePromise resolved with>>, <<>> while pending
    compilerExitArg,            \* what the compiler passed to process.exit, or NotCalled
    postProcessedAfterExit,     \* replaceTscAliasPaths started after the compiler's exit call
    opResult,                   \* <<the exitCode the operation returned>>, <<>> before
    exitStatus,                 \* <<the exit status of the process>>, <<>> while it runs
    filePathsToBePatched,       \* typecheck's precomputed entry-point paths
    generation,                 \* the generation of the wrappers the process runs
    artifacts,                  \* file of the package's dist-typecheck -> what it holds
    pass,                       \* the generation passes started for the package so far
    \* ---- one run of a tsmr command (bin/tsmr.ts)
    cmd,                        \* the command, "none" before it starts
    cmdSlug,                    \* its <packageSlug> argument, "" where it takes none
    cmdPc,                      \* where the command's action stands
    checked,                    \* what its shouldPackageBeChecked call gave, "" before
    cacheRemoved,               \* deleteCachedTypecheckFiles has removed the caches
    caches,                     \* the cache files and directories on disk
    removalsInFlight,           \* the fs.promises.rm calls issued and not completed
    linted,                     \* the linter has been imported and run
    \* ---- one run of turboTypecheck or turboLint (utils/turbo.ts)
    turboTask,                  \* the task the runner is started for, "none" before
    turboLogs,                  \* the `logs` argument
    turboPc,                    \* where the orchestrating function stands
    runnerOutput,               \* the lines the runner writes to its stdout in this run
    runnerSent,                 \* how many of them the 'data' handler has received
    stdout,                     \* the lines written to process.stdout, by line number
    bufferedLogLines,           \* the lines pushed to bufferedLogLines, by line number
    runnerLog,                  \* every runner invocation: task, exit code, what was returned
    \* ---- the calls of patchEslint in one process (utils/eslint.cts)
    patchCalls,                 \* how many times patchEslint has been called
    fsSymbols,                  \* the symbols set to true on the fs module
    wrapLayers                  \* the wrappers around each of fs.readFileSync, existsSync, statSync

readVars == <<onDisk, contents, currentTypescriptSourceFile, narrow,
              lastNarrow, tsConfigToFileReplacer, constructed, lastCall>>

gateVars == <<manifests, nodeModules, metadata, turboHash, gatePc, gateRuns,
              packageNamesWithoutNodeModules, markersLeft, installLog, buildLog,
              gateInstalled, lastCheck>>

tscVars == <<generation, op, opPc, processExit, exitCodePromise, compilerExitArg,
             postProcessedAfterExit, opResult, exitStatus, filePathsToBePatched,
             artifacts, pass>>

cmdVars == <<cmd, cmdSlug, cmdPc, checked, cacheRemoved, caches, removalsInFlight,
            linted>>

turboVars == <<turboTask, turboLogs, turboPc, runnerOutput, runnerSent, stdout,
               bufferedLogLines, runnerLog>>

patchVars == <<patchCalls, fsSymbols, wrapLayers>>

vars == <<readVars, gateVars, tscVars, cmdVars, turboVars, patchVars>>

\* what the interception controller, and what the gate, leaves alone
besidesRead == <<gateVars, tscVars, cmdVars, turboVars, patchVars>>
besidesGate == <<readVars, tscVars, cmdVars, turboVars, patchVars>>

----------------------------------------------------------------------------
(* Paths *)

NoPath == <<>>

tsconfigA == <<"w", "a", "tsconfig.json">>
tsconfigLintA == <<"w", "a", "tsconfig.lint.json">>
tsconfigTypecheckA == <<"w", "a", "tsconfig.typecheck.json">>
indexTs == <<"w", "a", "src", "index.ts">>
utilTs == <<"w", "a", "src", "util.ts">>
readmeMd == <<"w", "a", "README.md">>
depIndexTs == <<"w", "a", "node_modules", "dep", "index.ts">>
depTsconfig == <<"w", "a", "node_modules", "dep", "tsconfig.json">>
depTsconfigLint == <<"w", "a", "node_modules", "dep", "tsconfig.lint.json">>
typescriptJs == <<"w", "node_modules", "typescript", "lib", "typescript.js">>
tsconfigW == <<"w", "tsconfig.json">>
rootIndexTs == <<"w", "index.ts">>

Paths ==
    { tsconfigA, tsconfigLintA, tsconfigTypecheckA, indexTs, utilTs, readmeMd,
      depIndexTs, depTsconfig, depTsconfigLint, typescriptJs, tsconfigW,
      rootIndexTs }

\* path.basename
Basename(p) == p[Len(p)]

\* path.dirname
Dirname(p) == SubSeq(p, 1, Len(p) - 1)

\* path.join(dir, name)
Join(dir, name) == Append(dir, name)

\* path.parse(p).ext, for the file names of the model
ExtOf(p) ==
    CASE Basename(p) \in {"index.ts", "util.ts", "index.d.ts"} -> ".ts"
      [] Basename(p) = "typescript.js" -> ".js"
      [] Basename(p) = "README.md" -> ".md"
      [] OTHER -> ".json"

tsExtensions == {".ts", ".tsx", ".cts", ".mts"}

\* args[0].includes('/node_modules/'): a segment node_modules that is not the last
IncludesNodeModules(p) == \E i \in 1..(Len(p) - 1) : p[i] = "node_modules"

\* args[0].endsWith('/node_modules/typescript/lib/typescript.js')
EndsWithTypescriptJs(p) ==
    /\ Len(p) >= 4
    /\ SubSeq(p, Len(p) - 3, Len(p)) =
           <<"node_modules", "typescript", "lib", "typescript.js">>

----------------------------------------------------------------------------
(* Results of the fs primitives: ok = FALSE is a thrown ENOENT (or, for    *)
(* existsSync, the answer false).                                          *)

Ok(data) == [ok |-> TRUE, data |-> data]
Enoent == [ok |-> FALSE, data |-> <<"ENOENT">>]

\* the original fs.readFileSync
readFileSync(p) == IF p \in onDisk THEN Ok(contents[p]) ELSE Enoent

\* the original fs.existsSync
existsSync(p) == p \in onDisk

\* the original fs.statSync: the metadata of a file is named by its path
statSync(p) == IF p \in onDisk THEN Ok(p) ELSE Enoent

----------------------------------------------------------------------------
(* patchEslint *)

\* the text the generic read synthesizes for a missing tsconfig.lint.json
StubDocument == <<"extends ./tsconfig.json", "include .* *.* **/*.* **/.*">>

\* fileContents.replace('readFile: readFile', <wrapper>): the first occurrence
RECURSIVE ReplaceFirst(_, _, _)
ReplaceFirst(text, from, to) ==
    IF text = <<>> THEN <<>>
    ELSE IF Head(text) = from THEN <<to>> \o Tail(text)
    ELSE <<Head(text)>> \o ReplaceFirst(Tail(text), from, to)

patchTypescript(fileContents) ==
    ReplaceFirst(fileContents, "readFile: readFile", "readFile: narrow wrapper")

ShouldStub_NoBaseCheck(filePath) ==
    /\ Basename(filePath) = "tsconfig.lint.json"
    /\ ~existsSync(filePath)

shouldStubTsconfigLintJson(filePath) ==
    /\ Basename(filePath) = "tsconfig.lint.json"
    /\ ~existsSync(filePath)
    /\ existsSync(Join(Dirname(filePath), "tsconfig.json"))

\* the wrapped fs.statSync
StatSyncWrapper(p) ==
    IF shouldStubTsconfigLintJson(p)
    THEN statSync(Join(Dirname(p), "tsconfig.json"))
    ELSE statSync(p)

\* the wrapped fs.existsSync
ExistsSyncWrapper(p) ==
    IF shouldStubTsconfigLintJson(p) THEN TRUE ELSE existsSync(p)

FindUp_InPlace(name, dir) == Join(dir, name)

\* findUp.sync(name, {cwd: dir}): the nearest file of that name, upward
RECURSIVE FindUp(_, _)
FindUp(name, dir) ==
    IF existsSync(Join(dir, name)) THEN Join(dir, name)
    ELSE IF dir = <<>> THEN NoPath
    ELSE FindUp(name, Dirname(dir))

\* the configuration whose alias rules apply to a file: the nearest
\* tsconfig.json, or its sibling tsconfig.typecheck.json when that exists
ResolveTsConfigPath_BaseOnly(p) == FindUp("tsconfig.json", Dirname(p))

ResolveTsConfigPath(p) ==
    LET tsConfigPath == FindUp("tsconfig.json", Dirname(p))
        tsconfigTypecheckPath == Join(Dirname(tsConfigPath), "tsconfig.typecheck.json")
    IN  IF tsConfigPath = NoPath THEN NoPath
        ELSE IF ExistsSyncWrapper(tsconfigTypecheckPath) THEN tsconfigTypecheckPath
        ELSE tsConfigPath

\* the relative specifier an alias-prefixed specifier becomes under a config
RelativeFor(tsConfigPath) ==
    IF Basename(tsConfigPath) = "tsconfig.typecheck.json"
    THEN "relative (typecheck paths)"
    ELSE "relative (base paths)"

\* the replacer prepareSingleFileReplaceTscAliasPaths({configFile}) returns,
\* applied to a text: every alias-prefixed specifier becomes relative
FileReplacer(tsConfigPath, fileContents) ==
    [i \in DOMAIN fileContents |->
        IF fileContents[i] = "alias import" THEN RelativeFor(tsConfigPath)
        ELSE fileContents[i]]

IsExcluded_Never(p) == FALSE

\* "We don't want to process files in node_modules"
IsExcluded(p) == IncludesNodeModules(p)

ContextMatches_AnySource(p) == ExtOf(p) \in tsExtensions

\* the file is the one the compiler is reading to build its program
ContextMatches(p) ==
    /\ currentTypescriptSourceFile = p
    /\ ExtOf(p) \in tsExtensions

\* the wrapped fs.readFileSync: its result
ReadFileSyncWrapper(p) ==
    IF EndsWithTypescriptJs(p) THEN
        IF readFileSync(p).ok THEN Ok(patchTypescript(readFileSync(p).data))
        ELSE Enoent
    ELSE IF IsExcluded(p) THEN readFileSync(p)
    ELSE IF shouldStubTsconfigLintJson(p) THEN Ok(StubDocument)
    ELSE IF ContextMatches(p) THEN
        IF ResolveTsConfigPath(p) = NoPath THEN readFileSync(p)
        ELSE IF readFileSync(p).ok
             THEN Ok(FileReplacer(ResolveTsConfigPath(p), readFileSync(p).data))
             ELSE Enoent
    ELSE readFileSync(p)

\* the wrapped fs.readFileSync: the calls of
\* prepareSingleFileReplaceTscAliasPaths made so far, after the call: one more
\* when tsConfigToFileReplacer.get(tsConfigPath) is undefined
ConstructedAfterRead(p) ==
    IF /\ ~EndsWithTypescriptJs(p)
       /\ ~IsExcluded(p)
       /\ ~shouldStubTsconfigLintJson(p)
       /\ ContextMatches(p)
       /\ ResolveTsConfigPath(p) # NoPath
       /\ ResolveTsConfigPath(p) \notin tsConfigToFileReplacer
    THEN Append(constructed, ResolveTsConfigPath(p))
    ELSE constructed

\* the wrapped fs.readFileSync: the replacers memoized after the call
ReplacersAfterRead(p) ==
    IF /\ ~EndsWithTypescriptJs(p)
       /\ ~IsExcluded(p)
       /\ ~shouldStubTsconfigLintJson(p)
       /\ ContextMatches(p)
       /\ ResolveTsConfigPath(p) # NoPath
    THEN tsConfigToFileReplacer \cup {ResolveTsConfigPath(p)}
    ELSE tsConfigToFileReplacer

----------------------------------------------------------------------------
(* The state after patchEslint has run and the compiler library is loaded *)

SourceTexts == { <<"alias import", "code">>, <<"relative import", "code">> }

NoCall == [op |-> "none", path |-> NoPath, ok |-> FALSE, data |-> <<>>]

MaxPatchCalls == 3

\* Symbol('tsmr-patched') as the n-th call of patchEslint evaluates it: a
\* symbol of its own, equal to no symbol made by another call
NewSymbol(n) == n

\* a process in which patchEslint has not been called
Unpatched ==
    /\ patchCalls = 0
    /\ fsSymbols = {}
    /\ wrapLayers = 0

\* a process in which the linter's configuration has called patchEslint
PatchedOnce ==
    /\ patchCalls = 1
    /\ fsSymbols = {NewSymbol(1)}
    /\ wrapLayers = 1

\* a call of patchEslint: where fs does not hold the symbol, the symbol is
\* set and statSync, existsSync and readFileSync are each wrapped around what
\* fs holds, over a new, empty tsConfigToFileReplacer
PatchEslint ==
    /\ patchCalls < MaxPatchCalls
    /\ patchCalls' = patchCalls + 1
    /\ LET tsMonorepoPatchedSymbol == NewSymbol(patchCalls + 1)
       IN  IF tsMonorepoPatchedSymbol \notin fsSymbols
           THEN /\ fsSymbols' = fsSymbols \cup {tsMonorepoPatchedSymbol}
                /\ wrapLayers' = wrapLayers + 1
                /\ tsConfigToFileReplacer' = {}
           ELSE UNCHANGED <<fsSymbols, wrapLayers, tsConfigToFileReplacer>>
    /\ lastCall' = NoCall
    /\ UNCHANGED <<onDisk, contents, currentTypescriptSourceFile, narrow,
                   lastNarrow, constructed>>
    /\ UNCHANGED <<gateVars, tscVars, cmdVars, turboVars>>

InitRead ==
    /\ \E cfgs \in SUBSET {tsconfigA, tsconfigLintA, tsconfigTypecheckA, tsconfigW} :
           onDisk = {indexTs, utilTs, readmeMd, depIndexTs, depTsconfig, typescriptJs,
                     rootIndexTs} \cup cfgs
    /\ \E text \in SourceTexts :
           contents = [p \in Paths |->
               CASE p = indexTs -> text
                 [] p = utilTs -> <<"alias import", "code">>
                 [] p = rootIndexTs -> <<"alias import", "code">>
                 [] p = depIndexTs -> <<"alias import", "code">>
                 [] p = readmeMd -> <<"alias import", "prose">>
                 [] p = typescriptJs -> <<"sys", "readFile: readFile", "rest">>
                 [] OTHER -> <<"compilerOptions">>]
    /\ currentTypescriptSourceFile = NoPath
    /\ narrow = NoPath
    /\ lastNarrow = "none"
    /\ tsConfigToFileReplacer = {}
    /\ constructed = <<>>
    /\ PatchedOnce
    /\ lastCall = NoCall

\* the patched `readFile` of the compiler's sys (the narrow interception), up
\* to the call of the real readFile
NarrowBegin(p) ==
    /\ narrow = NoPath
    /\ currentTypescriptSourceFile' = p
    /\ narrow' = p
    /\ lastCall' = NoCall
    /\ UNCHANGED <<onDisk, contents, lastNarrow, tsConfigToFileReplacer,
                   constructed>>
    /\ UNCHANGED besidesRead

\* the real readFile returned: the wrapper clears the context and returns
NarrowReturn ==
    /\ narrow # NoPath
    /\ currentTypescriptSourceFile' = NoPath
    /\ narrow' = NoPath
    /\ lastNarrow' = "returned"
    /\ lastCall' = NoCall
    /\ UNCHANGED <<onDisk, contents, tsConfigToFileReplacer, constructed>>
    /\ UNCHANGED besidesRead

\* the real readFile threw: the exception leaves the wrapper at the call, the
\* statement that clears the context is not reached
NarrowThrow ==
    /\ narrow # NoPath
    /\ narrow' = NoPath
    /\ lastNarrow' = "threw"
    /\ lastCall' = NoCall
    /\ UNCHANGED <<onDisk, contents, currentTypescriptSourceFile,
                   tsConfigToFileReplacer, constructed>>
    /\ UNCHANGED besidesRead

\* a call of the wrapped fs.readFileSync, by the compiler's real readFile
\* (inside a narrow read) or by the linter (outside any)
GenericRead(p) ==
    /\ lastCall' = [op |-> "read", path |-> p,
                    ok |-> ReadFileSyncWrapper(p).ok,
                    data |-> ReadFileSyncWrapper(p).data]
    /\ tsConfigToFileReplacer' = ReplacersAfterRead(p)
    /\ constructed' = ConstructedAfterRead(p)
    /\ UNCHANGED <<onDisk, contents, currentTypescriptSourceFile, narrow, lastNarrow>>
    /\ UNCHANGED besidesRead

\* a call of the wrapped fs.existsSync
ExistsQuery(p) ==
    /\ lastCall' = [op |-> "exists", path |-> p, ok |-> ExistsSyncWrapper(p),
                    data |-> <<>>]
    /\ UNCHANGED <<onDisk, contents, currentTypescriptSourceFile, narrow,
                   lastNarrow, tsConfigToFileReplacer, constructed>>
    /\ UNCHANGED besidesRead

\* a call of the wrapped fs.statSync
StatQuery(p) ==
    /\ lastCall' = [op |-> "stat", path |-> p, ok |-> StatSyncWrapper(p).ok,
                    data |-> StatSyncWrapper(p).data]
    /\ UNCHANGED <<onDisk, contents, currentTypescriptSourceFile, narrow,
                   lastNarrow, tsConfigToFileReplacer, constructed>>
    /\ UNCHANGED besidesRead

NextRead ==
    \/ \E p \in Paths : NarrowBegin(p)
    \/ NarrowReturn
    \/ NarrowThrow
    \/ \E p \in Paths : GenericRead(p)
    \/ \E p \in Paths : ExistsQuery(p)
    \/ \E p \in Paths : StatQuery(p)

----------------------------------------------------------------------------
(* The workspace (utils/package.ts) *)

coreDir == <<"w", "packages", "core">>
apiDir == <<"w", "packages", "api">>
webDir == <<"w", "packages", "web">>

\* findWorkspacePackages(monorepoDir), in the order it lists them
WorkspacePackages == <<coreDir, apiDir, webDir>>

PackageDirs == {WorkspacePackages[i] : i \in DOMAIN WorkspacePackages}

\* manifest.name of each package
NameOf(dir) ==
    CASE dir = coreDir -> <<"@acme", "core">>
      [] dir = apiDir -> <<"@acme", "api">>
      [] OTHER -> <<"@acme", "web">>

\* the dependency maps a package.json may declare
NoDependencies ==
    [dependencies |-> {}, devDependencies |-> {}, peerDependencies |-> {}]
OnlyDependencies ==
    [dependencies |-> {"lodash"}, devDependencies |-> {}, peerDependencies |-> {}]
OnlyDevDependencies ==
    [dependencies |-> {}, devDependencies |-> {"vitest"}, peerDependencies |-> {}]
OnlyPeerDependencies ==
    [dependencies |-> {}, devDependencies |-> {}, peerDependencies |-> {"@acme/core"}]

DependencyShapes(dir) ==
    CASE dir = coreDir -> {NoDependencies, OnlyDependencies, OnlyPeerDependencies}
      [] dir = apiDir -> {NoDependencies, OnlyDevDependencies}
      [] OTHER -> {OnlyDependencies}

\* the "exports" field of a package.json: undefined, null, a string, an array,
\* a map of subpaths ("." first) to values, or a map of conditions; a value is
\* null, a string, or an object that may hold a string "types"
NoExports == [shape |-> "undefined", values |-> <<>>, types |-> NoPath]

\* a package.json
Manifest(dir, dependencyMaps, exports) ==
    [name |-> NameOf(dir), exports |-> exports] @@ dependencyMaps

\* a manifest without a name (<<>>): the invariant "package at <dir> must have
\* a name" throws in every call of getWorkspacePackageSlugsMap
SomeNameMissing == \E d \in PackageDirs : manifests[d].name = <<>>

\* getPackageSlug: packageName.split('/').at(-1)
getPackageSlug(packageName) == packageName[Len(packageName)]

\* getWorkspacePackageSlugsMap: slug -> package, a later package of the same
\* slug overwriting an earlier one; NoPath when no package has the slug
RECURSIVE SlugsMapUpTo(_, _)
SlugsMapUpTo(n, packageSlug) ==
    IF n = 0 THEN NoPath
    ELSE IF getPackageSlug(manifests[WorkspacePackages[n]].name) = packageSlug
         THEN WorkspacePackages[n]
         ELSE SlugsMapUpTo(n - 1, packageSlug)

getWorkspacePackageSlugsMap(packageSlug) ==
    IF SomeNameMissing THEN NoPath
    ELSE SlugsMapUpTo(Len(WorkspacePackages), packageSlug)

\* getPackageSlugs: Object.keys(workspacePackageSlugsMap)
getPackageSlugs == {getPackageSlug(manifests[d].name) : d \in PackageDirs}

\* getPackageDir: the directory, or NoPath where the invariant throws
\* "package <slug> not found"
getPackageDir(packageSlug) == getWorkspacePackageSlugsMap(packageSlug)

\* the slugs a caller may pass: the workspace's and one that names no package
SlugArguments == getPackageSlugs \cup {"ghost"}

\* node_modules/metadata.json: absent, or a JSON object with these keys true
NoMetadata == [exists |-> FALSE, truthy |-> {}]

\* JSON.stringify({ ignoredScripts: true })
GateMarker == [exists |-> TRUE, truthy |-> {"ignoredScripts"}]

\* shouldPackageBeChecked: "threw", "false" or "true"
shouldPackageBeChecked(packageSlug) ==
    LET packageDir == getPackageDir(packageSlug)
    IN  IF packageDir = NoPath THEN "threw"
        ELSE IF packageDir \notin nodeModules THEN "false"
        ELSE IF metadata[packageDir].exists
                /\ "ignoreScripts" \in metadata[packageDir].truthy THEN "false"
        ELSE "true"

----------------------------------------------------------------------------
(* The installer gate: setupLintAndTypecheck (utils/typecheck.ts) *)

MaxGateRuns == 2
MaxExitCode == 2

NoCheck == [op |-> "none", slug |-> "", result |-> ""]

DeclaresNoDependencies_Never(packageJson) == FALSE

\* no dependency of any kind declared
DeclaresNoDependencies(packageJson) ==
    /\ Cardinality(packageJson.dependencies) = 0
    /\ Cardinality(packageJson.devDependencies) = 0
    /\ Cardinality(packageJson.peerDependencies) = 0

NamesWithoutNodeModules_WithOrWithout ==
    { manifests[d].name :
        d \in { x \in PackageDirs : ~DeclaresNoDependencies(manifests[x]) } }

NamesWithoutNodeModules_OrProvisional ==
    { manifests[getPackageDir(packageSlug)].name : packageSlug \in
        { sl \in getPackageSlugs :
            /\ \/ getPackageDir(sl) \notin nodeModules
               \/ metadata[getPackageDir(sl)] = GateMarker
            /\ ~DeclaresNoDependencies(manifests[getPackageDir(sl)]) } }

\* the names the scan records: no node_modules folder, some dependency
NamesWithoutNodeModules ==
    { manifests[getPackageDir(packageSlug)].name : packageSlug \in
        { sl \in getPackageSlugs :
            /\ getPackageDir(sl) \notin nodeModules
            /\ ~DeclaresNoDependencies(manifests[getPackageDir(sl)]) } }

\* pnpm's --filter=<name>: the package of that name
PackageNamed(packageName) ==
    CHOOSE d \in PackageDirs : manifests[d].name = packageName

MarkerDir_Core(packageName) == coreDir

\* the directory the marker of a recorded name is written in: the one its
\* slug resolves to
MarkerDir(packageName) == getPackageDir(getPackageSlug(packageName))

\* a workspace at rest: no gate has run
GateAtRest ==
    /\ manifests = [d \in PackageDirs |-> Manifest(d, NoDependencies, NoExports)]
    /\ nodeModules = {}
    /\ metadata = [d \in PackageDirs |-> NoMetadata]
    /\ turboHash = FALSE
    /\ gatePc = "idle"
    /\ gateRuns = 0
    /\ packageNamesWithoutNodeModules = {}
    /\ markersLeft = {}
    /\ installLog = <<>>
    /\ buildLog = <<>>
    /\ gateInstalled = {}
    /\ lastCheck = NoCheck

InitGate ==
    /\ \E shapes \in [PackageDirs -> UNION {DependencyShapes(d) : d \in PackageDirs}] :
           /\ \A d \in PackageDirs : shapes[d] \in DependencyShapes(d)
           /\ manifests = [d \in PackageDirs |-> Manifest(d, shapes[d], NoExports)]
    /\ nodeModules \in SUBSET PackageDirs
    /\ metadata = [d \in PackageDirs |-> NoMetadata]
    /\ turboHash \in BOOLEAN
    /\ gatePc = "idle"
    /\ gateRuns = 0
    /\ packageNamesWithoutNodeModules = {}
    /\ markersLeft = {}
    /\ installLog = <<>>
    /\ buildLog = <<>>
    /\ gateInstalled = {}
    /\ lastCheck = NoCheck

\* setupLintAndTypecheck up to the end of the scan of all packages
GateScan ==
    /\ gatePc \in {"idle", "done", "threw"}
    /\ gateRuns < MaxGateRuns
    /\ gateRuns' = gateRuns + 1
    /\ packageNamesWithoutNodeModules' =
           IF SomeNameMissing THEN {} ELSE NamesWithoutNodeModules
    /\ markersLeft' = {}
    /\ gatePc' = IF SomeNameMissing THEN "threw"
                 ELSE IF NamesWithoutNodeModules # {} THEN "install" ELSE "build"
    /\ lastCheck' = NoCheck
    /\ UNCHANGED <<manifests, nodeModules, metadata, turboHash, installLog,
                   buildLog, gateInstalled>>
    /\ UNCHANGED besidesGate

\* `pnpm install --ignore-scripts --filter=<name>...` exits 0: each filtered
\* package now has a node_modules folder
GateInstallOk ==
    /\ gatePc = "install"
    /\ installLog' = Append(installLog, packageNamesWithoutNodeModules)
    /\ nodeModules' = nodeModules \cup
           {PackageNamed(n) : n \in packageNamesWithoutNodeModules}
    /\ markersLeft' = packageNamesWithoutNodeModules
    /\ gatePc' = "markers"
    /\ lastCheck' = NoCheck
    /\ UNCHANGED <<manifests, metadata, turboHash, gateRuns,
                   packageNamesWithoutNodeModules, buildLog, gateInstalled>>
    /\ UNCHANGED besidesGate

GateInstallFails_MarkersAnyway ==
    /\ gatePc = "install"
    /\ installLog' = Append(installLog, packageNamesWithoutNodeModules)
    /\ nodeModules' = nodeModules \cup
           {MarkerDir(n) : n \in packageNamesWithoutNodeModules}
    /\ metadata' = [d \in PackageDirs |->
           IF d \in {MarkerDir(n) : n \in packageNamesWithoutNodeModules}
           THEN GateMarker ELSE metadata[d]]
    /\ gateInstalled' = gateInstalled \cup
           {MarkerDir(n) : n \in packageNamesWithoutNodeModules}
    /\ gatePc' = "threw"
    /\ lastCheck' = NoCheck
    /\ UNCHANGED <<manifests, turboHash, gateRuns,
                   packageNamesWithoutNodeModules, markersLeft, buildLog>>
    /\ UNCHANGED besidesGate

\* the install exits non-zero: execa rejects and setupLintAndTypecheck throws;
\* pnpm may have created some of the folders
GateInstallFails ==
    /\ gatePc = "install"
    /\ installLog' = Append(installLog, packageNamesWithoutNodeModules)
    /\ \E made \in SUBSET packageNamesWithoutNodeModules :
           nodeModules' = nodeModules \cup {PackageNamed(n) : n \in made}
    /\ gatePc' = "threw"
    /\ lastCheck' = NoCheck
    /\ UNCHANGED <<manifests, metadata, turboHash, gateRuns,
                   packageNamesWithoutNodeModules, markersLeft, buildLog,
                   gateInstalled>>
    /\ UNCHANGED besidesGate

\* one of the concurrent marker writes: mkdir -p node_modules, then write
\* metadata.json in the directory the package's slug resolves to
GateWriteMarker(packageName) ==
    /\ gatePc = "markers"
    /\ packageName \in markersLeft
    /\ LET packageDir == MarkerDir(packageName)
       IN  /\ nodeModules' = nodeModules \cup {packageDir}
           /\ metadata' = [metadata EXCEPT ![packageDir] = GateMarker]
           /\ gateInstalled' = gateInstalled \cup {packageDir}
    /\ markersLeft' = markersLeft \ {packageName}
    /\ gatePc' = IF markersLeft' = {} THEN "build" ELSE "markers"
    /\ lastCheck' = NoCheck
    /\ UNCHANGED <<manifests, turboHash, gateRuns,
                   packageNamesWithoutNodeModules, installLog, buildLog>>
    /\ UNCHANGED besidesGate

\* the end of setupLintAndTypecheck under the task runner: no build
GateSkipBuild ==
    /\ gatePc = "build"
    /\ turboHash
    /\ gatePc' = "done"
    /\ lastCheck' = NoCheck
    /\ UNCHANGED <<manifests, nodeModules, metadata, turboHash, gateRuns,
                   packageNamesWithoutNodeModules, markersLeft, installLog,
                   buildLog, gateInstalled>>
    /\ UNCHANGED besidesGate

\* turboBuildTypecheckFolders throws: execa rejects on a non-zero exit code,
\* but for the `reject: false` of utils/typecheck.ts
BuildRejects(exitCode) == exitCode # 0 /\ generation = "bin/tsmr.ts"

\* turboBuildTypecheckFolders: `pnpm exec turbo build-typecheck` run to its
\* end; the gate does not look at the exit code it returns
GateBuild(exitCode) ==
    /\ gatePc = "build"
    /\ ~turboHash
    /\ buildLog' = Append(buildLog, exitCode)
    /\ gatePc' = IF BuildRejects(exitCode) THEN "threw" ELSE "done"
    /\ lastCheck' = NoCheck
    /\ UNCHANGED <<manifests, nodeModules, metadata, turboHash, gateRuns,
                   packageNamesWithoutNodeModules, markersLeft, installLog,
                   gateInstalled>>
    /\ UNCHANGED besidesGate

\* a call of shouldPackageBeChecked
ShouldBeChecked(packageSlug) ==
    /\ lastCheck' = [op |-> "check", slug |-> packageSlug,
                     result |-> shouldPackageBeChecked(packageSlug)]
    /\ UNCHANGED <<manifests, nodeModules, metadata, turboHash, gatePc, gateRuns,
                   packageNamesWithoutNodeModules, markersLeft, installLog,
                   buildLog, gateInstalled>>
    /\ UNCHANGED besidesGate

\* outside this system: node_modules is deleted and the package installed in
\* full, lifecycle scripts run; the marker goes with the old folder
ExternalFullInstall(packageDir) ==
    /\ gatePc \in {"idle", "done", "threw"}
    /\ nodeModules' = nodeModules \cup {packageDir}
    /\ metadata' = [metadata EXCEPT ![packageDir] = NoMetadata]
    /\ gateInstalled' = gateInstalled \ {packageDir}
    /\ lastCheck' = NoCheck
    /\ UNCHANGED <<manifests, turboHash, gatePc, gateRuns,
                   packageNamesWithoutNodeModules, markersLeft, installLog,
                   buildLog>>
    /\ UNCHANGED besidesGate

NextGate ==
    \/ GateScan
    \/ GateInstallOk
    \/ GateInstallFails
    \/ \E n \in markersLeft : GateWriteMarker(n)
    \/ GateSkipBuild
    \/ \E c \in 0..MaxExitCode : GateBuild(c)
    \/ \E sl \in SlugArguments : ShouldBeChecked(sl)
    \/ \E d \in PackageDirs : ExternalFullInstall(d)

----------------------------------------------------------------------------
(* The package lookups: utils/package.ts of tsmr, and the synchronous ones  *)
(* of ts-monorepo (bin/lint.ts)                                            *)

\* a property every object inherits: workspacePackageSlugsMap is a plain
\* object, and workspacePackageSlugsMap['constructor'] is not undefined
InheritedKeys == {"constructor"}

\* the slugs a caller may pass to a lookup
LookupSlugs == SlugArguments \cup InheritedKeys

LookupFunctions == {"getPackageDir", "getPackageJson", "shouldPackageBeChecked"}

\* how getPackageDir ends: the invariant lets every value but undefined
\* pass, and `.dir` of an inherited property is undefined
getPackageDirOutcome(packageSlug) ==
    IF SomeNameMissing THEN "threw: package must have a name"
    ELSE IF getWorkspacePackageSlugsMap(packageSlug) # NoPath
    THEN "the package directory"
    ELSE IF packageSlug \in InheritedKeys THEN "undefined"
    ELSE "threw: package not found"

\* how a lookup of utils/package.ts ends; path.join(undefined, ...) throws
\* a TypeError
LookupOutcome(fn, packageSlug) ==
    LET dir == getPackageDirOutcome(packageSlug)
    IN  IF fn = "getPackageDir" \/ dir \in { "threw: package must have a name",
                                            "threw: package not found" }
        THEN dir
        ELSE IF dir = "undefined" THEN "threw: TypeError"
        ELSE IF fn = "getPackageJson" THEN "the package.json"
        ELSE shouldPackageBeChecked(packageSlug)

\* ts-monorepo: getPackagesDir()
packagesDir == <<"w", "packages">>

\* ts-monorepo: getPackageDir is path.join(packagesDir, packageSlug)
getPackageDirSync(packageSlug) == Join(packagesDir, packageSlug)

\* how a lookup of ts-monorepo ends: the directory is never checked
LookupOutcomeSync(fn, packageSlug) ==
    LET packageDir == getPackageDirSync(packageSlug)
    IN  IF fn = "getPackageDir"
        THEN IF packageDir \in PackageDirs THEN "the package directory"
             ELSE "a made-up directory"
        ELSE IF fn = "getPackageJson"
        THEN IF packageDir \in PackageDirs THEN "the package.json"
             ELSE "threw: ENOENT"
        ELSE IF packageDir \notin nodeModules THEN "false"
        ELSE IF metadata[packageDir].exists
                /\ "ignoreScripts" \in metadata[packageDir].truthy THEN "false"
        ELSE "true"

\* a call of getPackageDir, getPackageJson or shouldPackageBeChecked of
\* utils/package.ts
PackageLookup(fn, packageSlug) ==
    /\ lastCheck' = [op |-> fn, slug |-> packageSlug,
                     result |-> LookupOutcome(fn, packageSlug)]
    /\ UNCHANGED <<manifests, nodeModules, metadata, turboHash, gatePc, gateRuns,
                   packageNamesWithoutNodeModules, markersLeft, installLog,
                   buildLog, gateInstalled>>
    /\ UNCHANGED besidesGate

\* a call of the function of the same name of ts-monorepo
PackageLookupSync(fn, packageSlug) ==
    /\ lastCheck' = [op |-> fn, slug |-> packageSlug,
                     result |-> LookupOutcomeSync(fn, packageSlug)]
    /\ UNCHANGED <<manifests, nodeModules, metadata, turboHash, gatePc, gateRuns,
                   packageNamesWithoutNodeModules, markersLeft, installLog,
                   buildLog, gateInstalled>>
    /\ UNCHANGED besidesGate

NextLookup ==
    \/ \E fn \in LookupFunctions, sl \in LookupSlugs : PackageLookup(fn, sl)
    \/ \E fn \in LookupFunctions, sl \in LookupSlugs : PackageLookupSync(fn, sl)

----------------------------------------------------------------------------
(* The commands (bin/tsmr.ts) and the task runner (utils/turbo.ts) at rest *)

\* no read is made
ReadAtRest ==
    /\ onDisk = {}
    /\ contents = [p \in {} |-> <<>>]
    /\ currentTypescriptSourceFile = NoPath
    /\ narrow = NoPath
    /\ lastNarrow = "none"
    /\ tsConfigToFileReplacer = {}
    /\ constructed = <<>>
    /\ Unpatched
    /\ lastCall = NoCall

\* path.join(getMonorepoDir(), 'node_modules/.cache/turbo')
RunnerCacheDir == <<"w", "node_modules", ".cache", "turbo">>

\* what earlier runs have left on disk: the runner's cache, and in the
\* packages a tsbuildinfo file, a dist-typecheck directory, .turbo
\* directories and a linter cache
CachesOnDisk ==
    { RunnerCacheDir,
      coreDir \o <<"tsconfig.tsbuildinfo">>,
      coreDir \o <<"dist-typecheck">>,
      coreDir \o <<".turbo">>,
      coreDir \o <<".eslintcache">>,
      apiDir \o <<".turbo">> }

\* globby of *.tsbuildinfo, dist-typecheck and .turbo in a package directory
TypecheckCacheGlob(packageDir) ==
    { p \in caches :
        /\ Dirname(p) = packageDir
        /\ Basename(p) \in {"tsconfig.tsbuildinfo", "dist-typecheck", ".turbo"} }

\* globby of *.eslintcache and .turbo in a package directory
LintCacheGlob(packageDir) ==
    { p \in caches :
        /\ Dirname(p) = packageDir
        /\ Basename(p) \in {".eslintcache", ".turbo"} }

\* no command has started
CmdAtRest ==
    /\ cmd = "none"
    /\ cmdSlug = ""
    /\ cmdPc = "none"
    /\ checked = ""
    /\ cacheRemoved = FALSE
    /\ caches = CachesOnDisk
    /\ removalsInFlight = {}
    /\ linted = FALSE

\* no runner has been started
TurboAtRest ==
    /\ turboTask = "none"
    /\ turboLogs = "full"
    /\ turboPc = "none"
    /\ runnerOutput = <<>>
    /\ runnerSent = 0
    /\ stdout = <<>>
    /\ bufferedLogLines = <<>>
    /\ runnerLog = <<>>

----------------------------------------------------------------------------
(* The compiler wrappers: typecheck (validate) and buildTypecheckFolder    *)
(* (generate), from the command's call of them to the exit of the process. *)
(* The source holds them in more than one generation: utils/typecheck.ts,  *)
(* which bin/tsmr.ts imports, and the later one appended to bin/tsmr.ts.   *)

Generations == {"utils/typecheck.ts", "bin/tsmr.ts"}

\* path.join(packageDir, types), types of several segments
JoinPath(dir, relative) == dir \o relative

coreIndexTs == JoinPath(coreDir, <<"index.ts">>)
coreSrcIndexTs == JoinPath(coreDir, <<"src", "index.ts">>)
coreDepTypes == JoinPath(coreDir, <<"node_modules", "dep", "index.d.ts">>)
apiIndexTs == JoinPath(apiDir, <<"index.ts">>)

TscPaths == {coreIndexTs, coreSrcIndexTs, coreDepTypes, apiIndexTs}

\* the values of an "exports" map
NullValue == [kind |-> "null", types |-> NoPath]
StringValue == [kind |-> "string", types |-> NoPath]
ObjectValue(types) == [kind |-> "object", types |-> types]

Subpaths(values) == [shape |-> "subpaths", values |-> values, types |-> NoPath]
Conditions(types) == [shape |-> "conditions", values |-> <<>>, types |-> types]
StringExports == [shape |-> "string", values |-> <<>>, types |-> NoPath]
ArrayExports == [shape |-> "array", values |-> <<>>, types |-> NoPath]

\* the "exports" fields the packages of the model may declare
ExportsShapes(dir) ==
    CASE dir = coreDir ->
            { Subpaths(<<ObjectValue(<<"index.ts">>)>>),
              Subpaths(<<NullValue, StringValue,
                         ObjectValue(<<"node_modules", "dep", "index.d.ts">>),
                         ObjectValue(NoPath)>>),
              Conditions(<<"index.ts">>),
              NoExports }
      [] dir = apiDir -> { Conditions(<<"index.ts">>), Conditions(NoPath) }
      [] OTHER -> { StringExports, ArrayExports }

\* Array.isArray(exports), for some package
SomeExportsIsArray == \E d \in PackageDirs : manifests[d].exports.shape = "array"

\* what the walk of one package's "exports" adds to filePathsToBePatched
TypesOf(packageDir) ==
    LET exports == manifests[packageDir].exports
    IN  IF exports.shape \in {"null", "undefined", "string", "array"} THEN {}
        ELSE IF exports.shape = "subpaths"
        THEN { JoinPath(packageDir, exports.values[i].types) :
                 i \in { j \in DOMAIN exports.values :
                           /\ exports.values[j].kind = "object"
                           /\ exports.values[j].types # NoPath } }
        ELSE IF exports.types # NoPath
             THEN { JoinPath(packageDir, exports.types) }
             ELSE {}

FilePathsToBePatched_CoreOnly == TypesOf(coreDir)

\* filePathsToBePatched after the walk of every package
FilePathsToBePatched == UNION { TypesOf(d) : d \in PackageDirs }

\* s.replaceAll(from, to)
ReplaceAll(text, from, to) ==
    [i \in DOMAIN text |-> IF text[i] = from THEN to ELSE text[i]]

\* the tokens that hold the substring '/scripts/', and each with its first
\* '/scripts/' replaced by '/dist-typecheck/'
ScriptsReplaced(token) ==
    CASE token = "/scripts/" -> "/dist-typecheck/"
      [] token = "./scripts/index.mts" -> "./dist-typecheck/index.mts"
      [] OTHER -> token

\* s.replace('/scripts/', '/dist-typecheck/'): the first occurrence only
RECURSIVE ReplaceFirstScripts(_)
ReplaceFirstScripts(text) ==
    IF text = <<>> THEN <<>>
    ELSE IF ScriptsReplaced(Head(text)) # Head(text)
         THEN <<ScriptsReplaced(Head(text))>> \o Tail(text)
         ELSE <<Head(text)>> \o ReplaceFirstScripts(Tail(text))

\* indexTsContents.includes('./scripts/index.mts')
IncludesScriptsIndex(text) ==
    \E i \in DOMAIN text : text[i] = "./scripts/index.mts"

\* filePathsToBePatched.has(args[0])
IsEntryPoint(p) == p \in filePathsToBePatched

\* the fs.readFileSync that typecheck installs (utils/typecheck.ts)
TypecheckReadFileSync(p) ==
    IF IncludesNodeModules(p) THEN readFileSync(p)
    ELSE IF IsEntryPoint(p)
    THEN LET real == readFileSync(p)
         IN  IF ~real.ok THEN real
             ELSE IF IncludesScriptsIndex(real.data)
             THEN Ok(ReplaceFirstScripts(real.data))
             ELSE Ok(ReplaceAll(real.data, "/src/", "/dist-typecheck/"))
    ELSE readFileSync(p)

\* the fs.readFileSync in force while typecheck's compiler runs: the later
\* generation of typecheck installs none
ReadFileSyncDuringTypecheck(p) ==
    IF generation = "utils/typecheck.ts" THEN TypecheckReadFileSync(p)
    ELSE readFileSync(p)

CapturedExitCode_AlwaysZero(args) == 0

CapturedExitCode_NoDefault(args) == IF args = <<>> THEN 1 ELSE args[1]

\* the capture's `(exitCode = 0) => ...`: the default of the parameter
CapturedExitCode(args) == IF args = <<>> THEN 0 ELSE args[1]

\* the arguments the compiler may pass to process.exit
ExitArguments == {<<>>} \cup { <<c>> : c \in 0..MaxExitCode }

NotCalled == [called |-> FALSE, args |-> <<>>]

\* what buildTypecheckFolder returns once exitCodePromise has resolved
BuildTypecheckFolderResult ==
    IF generation = "bin/tsmr.ts" THEN 0 ELSE exitCodePromise[1]

\* what typecheck returns: exitCodePromise
TypecheckResult == exitCodePromise[1]

\* the texts of a package's entry point
EntryTexts ==
    { <<"export * from '.", "/src/", "index.js'; export * from '.", "/src/", "types.js'">>,
      <<"export * from '", "./scripts/index.mts", "'; import '.", "/src/", "env.js'">>,
      <<"export {}">> }

\* the declaration files the compiler writes for the package
SummaryFiles == {"index.d.ts", "util.d.ts"}

\* dist-typecheck as the previous generation pass left it
PriorArtifacts == [f \in SummaryFiles |-> "prior"]

\* no compiler wrapper has been called
TscAtRest ==
    /\ artifacts = PriorArtifacts
    /\ pass = 1
    /\ generation = "bin/tsmr.ts"
    /\ op = "none"
    /\ opPc = "none"
    /\ processExit = "original"
    /\ exitCodePromise = <<>>
    /\ compilerExitArg = NotCalled
    /\ postProcessedAfterExit = FALSE
    /\ opResult = <<>>
    /\ exitStatus = <<>>
    /\ filePathsToBePatched = {}

InitTsc ==
    /\ CmdAtRest
    /\ TurboAtRest
    /\ artifacts = PriorArtifacts
    /\ pass = 1
    /\ op = "none"
    /\ opPc = "none"
    /\ processExit = "original"
    /\ exitCodePromise = <<>>
    /\ compilerExitArg = NotCalled
    /\ postProcessedAfterExit = FALSE
    /\ opResult = <<>>
    /\ exitStatus = <<>>
    /\ filePathsToBePatched = {}
    /\ nodeModules = PackageDirs
    /\ metadata = [d \in PackageDirs |-> NoMetadata]
    /\ turboHash = TRUE
    /\ gatePc = "idle"
    /\ gateRuns = 0
    /\ packageNamesWithoutNodeModules = {}
    /\ markersLeft = {}
    /\ installLog = <<>>
    /\ buildLog = <<>>
    /\ gateInstalled = {}
    /\ lastCheck = NoCheck
    /\ currentTypescriptSourceFile = NoPath
    /\ narrow = NoPath
    /\ lastNarrow = "none"
    /\ tsConfigToFileReplacer = {}
    /\ constructed = <<>>
    /\ Unpatched
    /\ lastCall = NoCall
    /\ onDisk = {coreIndexTs, coreSrcIndexTs, coreDepTypes}
    /\ generation \in Generations
    /\ \E text \in EntryTexts :
           contents = [p \in TscPaths |->
               CASE p = coreIndexTs -> text
                 [] p = coreSrcIndexTs -> <<"import '..", "/src/", "util.js'">>
                 [] OTHER -> <<"export * from '.", "/src/", "index.js'">>]
    /\ \E shapes \in [PackageDirs -> UNION {ExportsShapes(d) : d \in PackageDirs}] :
           /\ \A d \in PackageDirs : shapes[d] \in ExportsShapes(d)
           /\ manifests = [d \in PackageDirs |->
                  Manifest(d, OnlyDependencies, shapes[d])]

\* the part of the state a step of a wrapper leaves alone
besidesEmit == <<gateVars, currentTypescriptSourceFile, narrow, lastNarrow,
                 tsConfigToFileReplacer, constructed, onDisk, contents, cmdVars,
                 turboVars, patchVars, pass>>

besidesTsc == <<besidesEmit, artifacts>>

\* typecheck, from its call to the installation of the exit capture
TypecheckStart(packageSlug) ==
    /\ op = "none"
    /\ op' = "typecheck"
    /\ lastCall' = NoCall
    /\ IF generation = "utils/typecheck.ts" /\ SomeExportsIsArray
       THEN \* process.exit(1), the original one
            /\ opPc' = "killed"
            /\ exitStatus' = <<1>>
            /\ UNCHANGED <<processExit, filePathsToBePatched>>
       ELSE /\ filePathsToBePatched' =
                  IF generation = "utils/typecheck.ts"
                  THEN FilePathsToBePatched ELSE {}
            /\ IF getPackageDir(packageSlug) = NoPath
               THEN \* the invariant throws, the command's promise rejects
                    /\ opPc' = "threw"
                    /\ exitStatus' = <<1>>
                    /\ UNCHANGED processExit
               ELSE /\ opPc' = "compiling"
                    /\ processExit' = "capture"
                    /\ UNCHANGED exitStatus
    /\ UNCHANGED <<generation, exitCodePromise, compilerExitArg,
                   postProcessedAfterExit, opResult>>
    /\ UNCHANGED besidesTsc

\* buildTypecheckFolder, from its call to the installation of the exit capture
BuildStart(packageSlug) ==
    /\ op = "none"
    /\ op' = "build-typecheck"
    /\ lastCall' = NoCall
    /\ IF getPackageDir(packageSlug) = NoPath
       THEN /\ opPc' = "threw"
            /\ exitStatus' = <<1>>
            /\ UNCHANGED processExit
       ELSE /\ opPc' = "compiling"
            /\ processExit' = "capture"
            /\ UNCHANGED exitStatus
    /\ UNCHANGED <<generation, exitCodePromise, compilerExitArg,
                   postProcessedAfterExit, opResult, filePathsToBePatched>>
    /\ UNCHANGED besidesTsc

\* the compiler, run by typecheck, reads a file through fs.readFileSync
CompilerRead(p) ==
    /\ op = "typecheck"
    /\ opPc = "compiling"
    /\ LET result == ReadFileSyncDuringTypecheck(p)
       IN  lastCall' = [op |-> "read", path |-> p, ok |-> result.ok,
                        data |-> result.data]
    /\ UNCHANGED tscVars
    /\ UNCHANGED besidesTsc

\* the compiler's first call of process.exit: the capture restores the
\* original and resolves exitCodePromise
CompilerExit(args) ==
    /\ opPc \in {"compiling", "imported", "postprocessed"}
    /\ processExit = "capture"
    /\ processExit' = "original"
    /\ exitCodePromise' = <<CapturedExitCode(args)>>
    /\ compilerExitArg' = [called |-> TRUE, args |-> args]
    /\ lastCall' = NoCall
    /\ UNCHANGED <<generation, op, opPc, postProcessedAfterExit, opResult,
                   exitStatus, filePathsToBePatched>>
    /\ UNCHANGED besidesTsc

\* a later call of process.exit by the compiler reaches the original
CompilerExitAgain(args) ==
    /\ opPc \in {"compiling", "imported", "postprocessed"}
    /\ processExit = "original"
    /\ opPc' = "killed"
    /\ exitStatus' = <<CapturedExitCode(args)>>
    /\ lastCall' = NoCall
    /\ UNCHANGED <<generation, op, processExit, exitCodePromise, compilerExitArg,
                   postProcessedAfterExit, opResult, filePathsToBePatched>>
    /\ UNCHANGED besidesTsc

\* `await import(tscPath)` resolves
ImportResolves ==
    /\ opPc = "compiling"
    /\ opPc' = "imported"
    /\ lastCall' = NoCall
    /\ UNCHANGED <<generation, op, processExit, exitCodePromise, compilerExitArg,
                   postProcessedAfterExit, opResult, exitStatus,
                   filePathsToBePatched>>
    /\ UNCHANGED besidesTsc

\* buildTypecheckFolder: `await replaceTscAliasPaths(...)` rewrites, in place,
\* the files the compiler has written
ReplaceTscAliasPaths ==
    /\ op = "build-typecheck"
    /\ opPc = "imported"
    /\ opPc' = "postprocessed"
    /\ postProcessedAfterExit' = compilerExitArg.called
    /\ artifacts' = [f \in SummaryFiles |->
           IF artifacts[f] = "emitted" THEN "processed" ELSE artifacts[f]]
    /\ lastCall' = NoCall
    /\ UNCHANGED <<generation, op, processExit, exitCodePromise, compilerExitArg,
                   opResult, exitStatus, filePathsToBePatched>>
    /\ UNCHANGED besidesEmit

\* the compiler, run by buildTypecheckFolder, writes one declaration file
\* into dist-typecheck, over the file of the previous pass
CompilerEmit(f) ==
    /\ op = "build-typecheck"
    /\ opPc = "compiling"
    /\ processExit = "capture"
    /\ artifacts[f] # "emitted"
    /\ artifacts' = [artifacts EXCEPT ![f] = "emitted"]
    /\ lastCall' = NoCall
    /\ UNCHANGED <<generation, op, opPc, processExit, exitCodePromise,
                   compilerExitArg, postProcessedAfterExit, opResult, exitStatus,
                   filePathsToBePatched>>
    /\ UNCHANGED besidesEmit

\* the process is terminated from outside while a wrapper runs: it ends
\* without an exit status of its own
ProcessTerminated ==
    /\ opPc \in {"compiling", "imported", "postprocessed"}
    /\ opPc' = "killed"
    /\ lastCall' = NoCall
    /\ UNCHANGED <<generation, op, processExit, exitCodePromise, compilerExitArg,
                   postProcessedAfterExit, opResult, exitStatus,
                   filePathsToBePatched>>
    /\ UNCHANGED besidesTsc

\* typecheck returns what exitCodePromise resolved with
TypecheckReturn ==
    /\ op = "typecheck"
    /\ opPc = "imported"
    /\ exitCodePromise # <<>>
    /\ opResult' = <<TypecheckResult>>
    /\ opPc' = "returned"
    /\ lastCall' = NoCall
    /\ UNCHANGED <<generation, op, processExit, exitCodePromise, compilerExitArg,
                   postProcessedAfterExit, exitStatus, filePathsToBePatched>>
    /\ UNCHANGED besidesTsc

\* buildTypecheckFolder returns once exitCodePromise has resolved
BuildReturn ==
    /\ op = "build-typecheck"
    /\ opPc = "postprocessed"
    /\ exitCodePromise # <<>>
    /\ opResult' = <<BuildTypecheckFolderResult>>
    /\ opPc' = "returned"
    /\ lastCall' = NoCall
    /\ UNCHANGED <<generation, op, processExit, exitCodePromise, compilerExitArg,
                   postProcessedAfterExit, exitStatus, filePathsToBePatched>>
    /\ UNCHANGED besidesTsc

\* the command: process.exit(exitCode) with the wrapper's result
CommandExit ==
    /\ opPc = "returned"
    /\ processExit = "original"
    /\ exitStatus' = opResult
    /\ opPc' = "exited"
    /\ lastCall' = NoCall
    /\ UNCHANGED <<generation, op, processExit, exitCodePromise, compilerExitArg,
                   postProcessedAfterExit, opResult, filePathsToBePatched>>
    /\ UNCHANGED besidesTsc

NextTsc ==
    \/ \E sl \in SlugArguments : TypecheckStart(sl)
    \/ \E sl \in SlugArguments : BuildStart(sl)
    \/ \E p \in TscPaths : CompilerRead(p)
    \/ \E args \in ExitArguments : CompilerExit(args)
    \/ \E args \in ExitArguments : CompilerExitAgain(args)
    \/ ImportResolves
    \/ ReplaceTscAliasPaths
    \/ \E f \in SummaryFiles : CompilerEmit(f)
    \/ ProcessTerminated
    \/ TypecheckReturn
    \/ BuildReturn
    \/ CommandExit

----------------------------------------------------------------------------
(* The fs.readFileSync that buildTypecheckFolder installs, and a second    *)
(* generation pass for the same package                                    *)

MaxPasses == 2

coreTsconfig == JoinPath(coreDir, <<"tsconfig.json">>)
coreTsconfigTypecheck == JoinPath(coreDir, <<"tsconfig.typecheck.json">>)
coreTypecheckJson == JoinPath(coreDir, <<"typecheck.json">>)
coreSrcUtilTs == JoinPath(coreDir, <<"src", "util.ts">>)
coreReadme == JoinPath(coreDir, <<"README.md">>)

BuildPaths ==
    { coreTsconfig, coreTsconfigTypecheck, coreTypecheckJson, tsconfigW,
      coreSrcIndexTs, coreSrcUtilTs, coreDepTypes, coreReadme, rootIndexTs }

\* the configuration files among them, whatever their name
ConfigPaths == {coreTsconfig, coreTsconfigTypecheck, coreTypecheckJson, tsconfigW}

javascriptExtensions ==
    {".js", ".jsx", ".ts", ".tsx", ".mjs", ".cjs", ".cts", ".mts"}

\* /tsconfig\.(\w+\.)?json/.test(path.basename(args[0]))
IsTsconfigName(name) ==
    name \in {"tsconfig.json", "tsconfig.typecheck.json", "tsconfig.lint.json"}

\* parse(contents, filename) of a tsconfig throws
ParseThrows(text) == \E i \in DOMAIN text : text[i] = "malformed"

\* the parsed tsconfig: its fields, the comments stripped
ParsedFields(text) == SelectSeq(text, LAMBDA t : t # "// comment")

\* `delete tsconfig.references`, then JSON.stringify(tsconfig, null, '\t')
WithoutReferences(text) ==
    SelectSeq(ParsedFields(text), LAMBDA t : t # "references")

InterpreterLine == "#!/usr/bin/env node"
TsCheckComment == "// @ts-check"
TsNoCheckComment == "// @ts-nocheck"

\* fileContents.startsWith('#')
StartsWithHash(text) == text # <<>> /\ Head(text) = InterpreterLine

\* /\/\/\s*@ts-check\b/.test(contents.trimStart()): the comment on any line
hasTsCheckComment(text) == \E i \in DOMAIN text : text[i] = TsCheckComment

\* a line with its first '@ts-check' replaced by '@ts-nocheck'
TsCheckReplaced(line) ==
    CASE line = TsCheckComment -> TsNoCheckComment
      [] line = "/* not @ts-check */" -> "/* not @ts-nocheck */"
      [] OTHER -> line

\* contents.replace('@ts-check', '@ts-nocheck'): the first occurrence only
RECURSIVE ReplaceFirstTsCheck(_)
ReplaceFirstTsCheck(text) ==
    IF text = <<>> THEN <<>>
    ELSE IF TsCheckReplaced(Head(text)) # Head(text)
         THEN <<TsCheckReplaced(Head(text))>> \o Tail(text)
         ELSE <<Head(text)>> \o ReplaceFirstTsCheck(Tail(text))

\* the three branches that add `// @ts-nocheck`
InjectNoCheck(text) ==
    IF StartsWithHash(text)
    THEN <<Head(text), TsNoCheckComment>> \o
             (IF hasTsCheckComment(Tail(text))
              THEN ReplaceFirstTsCheck(Tail(text)) ELSE Tail(text))
    ELSE IF hasTsCheckComment(text) THEN ReplaceFirstTsCheck(text)
    ELSE <<TsNoCheckComment>> \o text

BuildResolveTsConfigPath_Memoized(p) ==
    IF tsConfigToFileReplacer # {}
    THEN CHOOSE c \in tsConfigToFileReplacer : TRUE
    ELSE FindUp("tsconfig.json", Dirname(p))

\* the configuration whose alias rules the wrapper applies to a file
BuildResolveTsConfigPath(p) ==
    LET tsConfigPath == FindUp("tsconfig.json", Dirname(p))
        tsconfigTypecheckPath == Join(Dirname(tsConfigPath), "tsconfig.typecheck.json")
    IN  IF tsConfigPath = NoPath THEN NoPath
        ELSE IF existsSync(tsconfigTypecheckPath) THEN tsconfigTypecheckPath
        ELSE tsConfigPath

\* the wrapper reaches the alias rewrite of the file
BuildRewrites(p) ==
    /\ generation = "bin/tsmr.ts"
    /\ readFileSync(p).ok
    /\ ~IsTsconfigName(Basename(p))
    /\ ExtOf(p) \in javascriptExtensions
    /\ ~IncludesNodeModules(p)
    /\ BuildResolveTsConfigPath(p) # NoPath

\* the wrapper calls process.exit(1): a tsconfig that cannot be parsed
BuildReadExits(p) ==
    /\ generation = "bin/tsmr.ts"
    /\ readFileSync(p).ok
    /\ IsTsconfigName(Basename(p))
    /\ ParseThrows(readFileSync(p).data)

\* the wrapper of bin/tsmr.ts: what it returns, where process.exit returns
BuildReadFileSyncOfBin(p) ==
    LET originalFileContents == readFileSync(p)
    IN  IF ~originalFileContents.ok THEN Enoent
        ELSE IF IsTsconfigName(Basename(p))
                /\ ~ParseThrows(originalFileContents.data)
        THEN Ok(WithoutReferences(originalFileContents.data))
        ELSE IF ExtOf(p) \notin javascriptExtensions THEN originalFileContents
        ELSE IF IncludesNodeModules(p) THEN originalFileContents
        ELSE IF BuildResolveTsConfigPath(p) # NoPath
        THEN Ok(InjectNoCheck(FileReplacer(BuildResolveTsConfigPath(p),
                                           originalFileContents.data)))
        ELSE Ok(InjectNoCheck(originalFileContents.data))

\* the wrapper of utils/typecheck.ts
BuildReadFileSyncOfUtils(p) ==
    IF ExtOf(p) \in tsExtensions
    THEN IF readFileSync(p).ok THEN Ok(InjectNoCheck(readFileSync(p).data))
         ELSE Enoent
    ELSE readFileSync(p)

\* the fs.readFileSync in force while buildTypecheckFolder's compiler runs
BuildReadFileSync(p) ==
    IF generation = "bin/tsmr.ts" THEN BuildReadFileSyncOfBin(p)
    ELSE BuildReadFileSyncOfUtils(p)

\* the compiler, run by buildTypecheckFolder, reads a file through
\* fs.readFileSync; the wrapper's process.exit(1) reaches the exit capture
\* while that is installed, and then returns
BuildRead(p) ==
    /\ op = "build-typecheck"
    /\ opPc = "compiling"
    /\ IF BuildReadExits(p) /\ processExit = "original"
       THEN /\ opPc' = "killed"
            /\ exitStatus' = <<1>>
            /\ lastCall' = NoCall
            /\ UNCHANGED <<processExit, exitCodePromise>>
       ELSE /\ lastCall' = [op |-> "read", path |-> p,
                            ok |-> BuildReadFileSync(p).ok,
                            data |-> BuildReadFileSync(p).data]
            /\ processExit' = IF BuildReadExits(p) THEN "original" ELSE processExit
            /\ exitCodePromise' = IF BuildReadExits(p) THEN <<1>> ELSE exitCodePromise
            /\ UNCHANGED <<opPc, exitStatus>>
    /\ tsConfigToFileReplacer' =
           IF BuildRewrites(p)
           THEN tsConfigToFileReplacer \cup {BuildResolveTsConfigPath(p)}
           ELSE tsConfigToFileReplacer
    /\ constructed' =
           IF BuildRewrites(p) /\ BuildResolveTsConfigPath(p) \notin tsConfigToFileReplacer
           THEN Append(constructed, BuildResolveTsConfigPath(p))
           ELSE constructed
    /\ UNCHANGED <<generation, op, compilerExitArg, postProcessedAfterExit,
                   opResult, filePathsToBePatched, artifacts, pass>>
    /\ UNCHANGED <<gateVars, currentTypescriptSourceFile, narrow, lastNarrow,
                   onDisk, contents, cmdVars, turboVars, patchVars>>

\* the build-typecheck command is run once more for the package, in a new
\* process, with the disk as the earlier pass left it
RunAgain ==
    /\ op = "build-typecheck"
    /\ opPc = "exited"
    /\ pass < MaxPasses
    /\ pass' = pass + 1
    /\ opPc' = "compiling"
    /\ processExit' = "capture"
    /\ exitCodePromise' = <<>>
    /\ compilerExitArg' = NotCalled
    /\ postProcessedAfterExit' = FALSE
    /\ opResult' = <<>>
    /\ exitStatus' = <<>>
    /\ tsConfigToFileReplacer' = {}
    /\ constructed' = <<>>
    /\ lastCall' = NoCall
    /\ UNCHANGED <<generation, op, filePathsToBePatched, artifacts>>
    /\ UNCHANGED <<gateVars, currentTypescriptSourceFile, narrow, lastNarrow,
                   onDisk, contents, cmdVars, turboVars, patchVars>>

\* the texts of the package's src/index.ts
BuildTexts ==
    { <<"alias import", "code">>,
      <<InterpreterLine, "alias import">>,
      <<TsCheckComment, "code">>,
      <<"code", TsCheckComment, "alias import">>,
      <<InterpreterLine, TsCheckComment, "code">>,
      <<"/* not @ts-check */", TsCheckComment, "code">> }

\* the texts of the package's tsconfig.json
ConfigTexts ==
    { <<"compilerOptions", "references">>,
      <<"// comment", "compilerOptions", "references", "include">>,
      <<"malformed">> }

\* the configuration files on disk
ConfigsOnDisk ==
    { {coreTsconfig, coreTypecheckJson},
      {coreTsconfig, coreTsconfigTypecheck, tsconfigW},
      {tsconfigW, coreTypecheckJson},
      {coreTypecheckJson} }

InitBuild ==
    /\ GateAtRest
    /\ CmdAtRest
    /\ TurboAtRest
    /\ artifacts = PriorArtifacts
    /\ pass = 1
    /\ op = "none"
    /\ opPc = "none"
    /\ processExit = "original"
    /\ exitCodePromise = <<>>
    /\ compilerExitArg = NotCalled
    /\ postProcessedAfterExit = FALSE
    /\ opResult = <<>>
    /\ exitStatus = <<>>
    /\ filePathsToBePatched = {}
    /\ currentTypescriptSourceFile = NoPath
    /\ narrow = NoPath
    /\ lastNarrow = "none"
    /\ tsConfigToFileReplacer = {}
    /\ constructed = <<>>
    /\ Unpatched
    /\ lastCall = NoCall
    /\ generation \in Generations
    /\ \E cfgs \in ConfigsOnDisk :
           onDisk = {coreSrcIndexTs, coreSrcUtilTs, coreDepTypes, coreReadme,
                     rootIndexTs} \cup cfgs
    /\ \E text \in BuildTexts, config \in ConfigTexts :
           contents = [p \in BuildPaths |->
               CASE p = coreSrcIndexTs -> text
                 [] p = coreTsconfig -> config
                 [] p \in ConfigPaths -> <<"compilerOptions", "references">>
                 [] p = coreReadme -> <<"alias import", "prose">>
                 [] OTHER -> <<"alias import", "code">>]

NextBuild ==
    \/ \E sl \in SlugArguments : BuildStart(sl)
    \/ \E p \in BuildPaths : BuildRead(p)
    \/ \E f \in SummaryFiles : CompilerEmit(f)
    \/ \E args \in ExitArguments : CompilerExit(args)
    \/ \E args \in ExitArguments : CompilerExitAgain(args)
    \/ ImportResolves
    \/ ReplaceTscAliasPaths
    \/ BuildReturn
    \/ CommandExit
    \/ RunAgain

SpecBuild == InitBuild /\ [][NextBuild]_vars

----------------------------------------------------------------------------
(* The task runner: turboTypecheck and turboLint (utils/turbo.ts) *)

MaxLines == 2

\* a line of the runner's stdout: the package scope of its Turbo prefix
\* `<scope>/<slug>:<task>:` ("" for a line without one) and what follows it
PnpmLine == [scope |-> "", contents |-> <<"Tasks: 2 successful">>]
EchoLine == [scope |-> "@dialect-inc", contents |-> <<" > ", "tsmr typecheck web">>]
TaskLine == [scope |-> "@dialect-inc", contents |-> <<" ", "error TS2322">>]
AcmeTaskLine == [scope |-> "@acme", contents |-> <<" ", "error TS2322">>]

Lines == {PnpmLine, EchoLine, TaskLine, AcmeTaskLine}

\* the outputs of a runner: up to MaxLines lines
RunnerOutputs == UNION { [1..n -> Lines] : n \in 0..MaxLines }

\* /^@dialect-inc\/[\da-z-]+:\w+:(.*)/.exec(strippedAnsiLine)?.[1] !== undefined
HasLineContents(line) == line.scope = "@dialect-inc"

\* lineContents.startsWith(' > ')
StartsWithEcho(line) == Head(line.contents) = " > "

\* the 'data' handler pushes the line to bufferedLogLines
IsBuffered(task, line) ==
    IF task = "typecheck"
    THEN HasLineContents(line) /\ ~StartsWithEcho(line)
    ELSE TRUE

\* the 'data' handler writes the line to process.stdout
IsWritten(task, logs, line) ==
    IF task = "typecheck"
    THEN \/ ~HasLineContents(line)
         \/ ~StartsWithEcho(line) /\ logs = "full"
    ELSE logs = "full"

\* the part of the state a step of turboTypecheck or turboLint leaves alone
besidesTurbo == <<readVars, gateVars, tscVars, cmdVars, patchVars>>

\* turboTypecheck / turboLint up to the start of `pnpm exec turbo <task>`
TurboStart(task, logs) ==
    /\ turboPc = "none"
    /\ turboTask' = task
    /\ turboLogs' = logs
    /\ turboPc' = "running"
    /\ UNCHANGED <<runnerOutput, runnerSent, stdout, bufferedLogLines, runnerLog>>
    /\ UNCHANGED besidesTurbo

\* the 'data' handler receives the runner's next line
RunnerData ==
    /\ turboPc = "running"
    /\ runnerSent < Len(runnerOutput)
    /\ runnerSent' = runnerSent + 1
    /\ LET line == runnerOutput[runnerSent + 1]
       IN  /\ stdout' = IF IsWritten(turboTask, turboLogs, line)
                        THEN Append(stdout, runnerSent + 1) ELSE stdout
           /\ bufferedLogLines' = IF IsBuffered(turboTask, line)
                                  THEN Append(bufferedLogLines, runnerSent + 1)
                                  ELSE bufferedLogLines
    /\ UNCHANGED <<turboTask, turboLogs, turboPc, runnerOutput, runnerLog>>
    /\ UNCHANGED besidesTurbo

\* what turboTypecheck / turboLint returns: `return { exitCode }`
RunnerResult(exitCode) == <<exitCode>>

\* the runner exits (`reject: false`): the buffered lines are flushed in
\* summary mode on a non-zero code, and the code is returned
RunnerExit(exitCode) ==
    /\ turboPc = "running"
    /\ runnerSent = Len(runnerOutput)
    /\ stdout' = IF turboLogs = "summary" /\ exitCode # 0
                 THEN stdout \o bufferedLogLines ELSE stdout
    /\ runnerLog' = Append(runnerLog, [task |-> turboTask, exitCode |-> exitCode,
                                       result |-> RunnerResult(exitCode)])
    /\ turboPc' = "returned"
    /\ UNCHANGED <<turboTask, turboLogs, runnerOutput, runnerSent, bufferedLogLines>>
    /\ UNCHANGED besidesTurbo

InitTurbo ==
    /\ ReadAtRest
    /\ GateAtRest
    /\ TscAtRest
    /\ CmdAtRest
    /\ turboTask = "none"
    /\ turboLogs = "full"
    /\ turboPc = "none"
    /\ runnerSent = 0
    /\ stdout = <<>>
    /\ bufferedLogLines = <<>>
    /\ runnerLog = <<>>
    /\ runnerOutput \in RunnerOutputs

NextTurbo ==
    \/ \E task \in {"typecheck", "lint"}, logs \in {"full", "summary", "none"} :
           TurboStart(task, logs)
    \/ RunnerData
    \/ \E c \in 0..MaxExitCode : RunnerExit(c)

SpecTurbo == InitTurbo /\ [][NextTurbo]_vars

----------------------------------------------------------------------------
(* The commands of bin/tsmr.ts, one per process *)

PerPackageCommands == {"typecheck", "lint", "build-typecheck"}
TurboCommands == {"turbo-typecheck", "turbo-lint", "turbo-build-typecheck"}

\* the <packageSlug> arguments: the workspace's slugs and one of no package
CmdSlugs == { getPackageSlug(NameOf(d)) : d \in PackageDirs } \cup {"ghost"}

ShouldSkip_Never(result) == FALSE

\* `!(await shouldPackageBeChecked({ packageSlug }))`
ShouldSkip(result) == result = "false"

GateFinished_NotAwaited == gatePc # "idle"

\* `await setupLintAndTypecheck(...)` has resolved
GateFinished == gatePc = "done"

\* what a step of a command's action leaves alone, next to what it names
besidesCache == <<readVars, turboVars, patchVars, generation, op, opPc, processExit,
                  exitCodePromise, compilerExitArg, postProcessedAfterExit,
                  opResult, filePathsToBePatched, artifacts, pass, manifests,
                  nodeModules, metadata, turboHash, gatePc, gateRuns,
                  packageNamesWithoutNodeModules, markersLeft, installLog,
                  gateInstalled>>

besidesCmd == <<besidesCache, caches, removalsInFlight>>

\* commander calls the action of the command named on the command line
CmdStart(command, packageSlug, force) ==
    /\ cmd = "none"
    /\ cmd' = command
    /\ cmdSlug' = packageSlug
    /\ cmdPc' = CASE command \in {"typecheck", "lint"} -> "check"
                  [] command = "build-typecheck" -> "run"
                  [] force -> "force"
                  [] command = "turbo-build-typecheck" -> "run"
                  [] OTHER -> "setup"
    /\ UNCHANGED <<checked, cacheRemoved, linted, exitStatus, lastCheck, buildLog>>
    /\ UNCHANGED besidesCmd

\* typecheck / lint: the readiness query; not ready is skipped with exit 0,
\* a throw rejects the action and the process ends with status 1
CmdCheck ==
    /\ cmdPc = "check"
    /\ LET result == shouldPackageBeChecked(cmdSlug)
       IN  /\ checked' = result
           /\ lastCheck' = [op |-> "check", slug |-> cmdSlug, result |-> result]
           /\ IF result = "threw"
              THEN cmdPc' = "exited" /\ exitStatus' = <<1>>
              ELSE IF ShouldSkip(result)
              THEN cmdPc' = "exited" /\ exitStatus' = <<0>>
              ELSE cmdPc' = "setup" /\ UNCHANGED exitStatus
    /\ UNCHANGED <<cmd, cmdSlug, cacheRemoved, linted, buildLog>>
    /\ UNCHANGED besidesCmd

\* the removals the flatMap callbacks of deleteCachedTypecheckFiles issue:
\* each callback returns an array of fs.promises.rm promises, so Promise.all
\* waits for the callbacks and not for the removals
IssuedRemovals == UNION { TypecheckCacheGlob(d) : d \in PackageDirs }

\* turbo-*: `--force`, deleteCachedTypecheckFiles up to where its Promise.all
\* resolves: the runner's cache is removed, the removals in the packages are
\* issued; getPackageSlugs throws before any removal when a package has no
\* name
CmdDeleteCache ==
    /\ cmdPc = "force"
    /\ IF SomeNameMissing
       THEN /\ cmdPc' = "exited"
            /\ exitStatus' = <<1>>
            /\ UNCHANGED <<cacheRemoved, caches, removalsInFlight>>
       ELSE /\ cacheRemoved' = TRUE
            /\ caches' = caches \ {RunnerCacheDir}
            /\ removalsInFlight' = IssuedRemovals
            /\ cmdPc' = IF cmd = "turbo-build-typecheck" THEN "run" ELSE "setup"
            /\ UNCHANGED exitStatus
    /\ UNCHANGED <<cmd, cmdSlug, checked, linted, lastCheck, buildLog>>
    /\ UNCHANGED besidesCache

\* one of the issued fs.promises.rm calls completes, while the process lives
RemovalCompletes(item) ==
    /\ item \in removalsInFlight
    /\ cmdPc # "exited"
    /\ caches' = caches \ {item}
    /\ removalsInFlight' = removalsInFlight \ {item}
    /\ UNCHANGED <<cmd, cmdSlug, cmdPc, checked, cacheRemoved, linted, exitStatus,
                   lastCheck, buildLog>>
    /\ UNCHANGED besidesCache

CallsGate_Always == cmdPc = "setup" /\ gatePc = "idle"

\* the gate is called: always by turbo-typecheck and turbo-lint, by typecheck
\* and lint when TURBO_HASH is undefined
CallsGate ==
    /\ cmdPc = "setup"
    /\ gatePc = "idle"
    /\ cmd \in {"typecheck", "lint"} => ~turboHash

\* typecheck / lint under the task runner: no gate
CmdSkipGate ==
    /\ cmdPc = "setup"
    /\ cmd \in {"typecheck", "lint"}
    /\ turboHash
    /\ cmdPc' = "run"
    /\ UNCHANGED <<cmd, cmdSlug, checked, cacheRemoved, linted, exitStatus,
                   lastCheck, buildLog>>
    /\ UNCHANGED besidesCmd

\* setupLintAndTypecheck has returned
CmdGateReturns ==
    /\ cmdPc = "setup"
    /\ GateFinished
    /\ cmdPc' = "run"
    /\ UNCHANGED <<cmd, cmdSlug, checked, cacheRemoved, linted, exitStatus,
                   lastCheck, buildLog>>
    /\ UNCHANGED besidesCmd

\* setupLintAndTypecheck has thrown: the action rejects
CmdGateThrows ==
    /\ cmdPc = "setup"
    /\ gatePc = "threw"
    /\ cmdPc' = "exited"
    /\ exitStatus' = <<1>>
    /\ UNCHANGED <<cmd, cmdSlug, checked, cacheRemoved, linted, lastCheck, buildLog>>
    /\ UNCHANGED besidesCmd

\* lint: the linter is imported and runs to its end
CmdLint(exitCode) ==
    /\ cmd = "lint"
    /\ cmdPc = "run"
    /\ linted' = TRUE
    /\ cmdPc' = "exited"
    /\ exitStatus' = <<exitCode>>
    /\ UNCHANGED <<cmd, cmdSlug, checked, cacheRemoved, lastCheck, buildLog>>
    /\ UNCHANGED besidesCmd

\* turbo-build-typecheck: turboBuildTypecheckFolders, then process.exit with
\* its exit code; where it throws the action rejects
CmdBuild(exitCode) ==
    /\ cmd = "turbo-build-typecheck"
    /\ cmdPc = "run"
    /\ buildLog' = Append(buildLog, exitCode)
    /\ cmdPc' = "exited"
    /\ exitStatus' = IF BuildRejects(exitCode) THEN <<1>> ELSE <<exitCode>>
    /\ UNCHANGED <<cmd, cmdSlug, checked, cacheRemoved, linted, lastCheck>>
    /\ UNCHANGED besidesCmd

\* turbo-typecheck / turbo-lint: process.exit with the runner's exit code
CmdTurboExit ==
    /\ cmdPc = "run"
    /\ turboPc = "returned"
    /\ cmdPc' = "exited"
    /\ exitStatus' = runnerLog[Len(runnerLog)].result
    /\ UNCHANGED <<cmd, cmdSlug, checked, cacheRemoved, linted, lastCheck, buildLog>>
    /\ UNCHANGED besidesCmd

\* a workspace and a process before the command line is read
InitCmd ==
    /\ CmdAtRest
    /\ artifacts = PriorArtifacts
    /\ pass = 1
    /\ turboTask = "none"
    /\ turboLogs = "full"
    /\ turboPc = "none"
    /\ runnerOutput = <<PnpmLine, TaskLine>>
    /\ runnerSent = 0
    /\ stdout = <<>>
    /\ bufferedLogLines = <<>>
    /\ runnerLog = <<>>
    /\ op = "none"
    /\ opPc = "none"
    /\ processExit = "original"
    /\ exitCodePromise = <<>>
    /\ compilerExitArg = NotCalled
    /\ postProcessedAfterExit = FALSE
    /\ opResult = <<>>
    /\ exitStatus = <<>>
    /\ filePathsToBePatched = {}
    /\ metadata = [d \in PackageDirs |-> NoMetadata]
    /\ gatePc = "idle"
    /\ gateRuns = 0
    /\ packageNamesWithoutNodeModules = {}
    /\ markersLeft = {}
    /\ installLog = <<>>
    /\ buildLog = <<>>
    /\ gateInstalled = {}
    /\ lastCheck = NoCheck
    /\ currentTypescriptSourceFile = NoPath
    /\ narrow = NoPath
    /\ lastNarrow = "none"
    /\ tsConfigToFileReplacer = {}
    /\ constructed = <<>>
    /\ Unpatched
    /\ lastCall = NoCall
    /\ onDisk = {coreIndexTs, coreSrcIndexTs, coreDepTypes}
    /\ contents = [p \in TscPaths |-> <<"export * from '.", "/src/", "index.js'">>]
    /\ generation \in Generations
    /\ turboHash \in BOOLEAN
    /\ nodeModules \in {PackageDirs, {coreDir, apiDir}, {apiDir}}
    /\ \E webName \in {NameOf(webDir), <<>>},
          webExports \in {StringExports, ArrayExports} :
           manifests = [d \in PackageDirs |->
               IF d = webDir
               THEN [Manifest(d, OnlyDependencies, webExports)
                        EXCEPT !.name = webName]
               ELSE IF d = coreDir
               THEN Manifest(d, OnlyPeerDependencies, Conditions(<<"index.ts">>))
               ELSE Manifest(d, NoDependencies, NoExports)]

NextCmd ==
    \/ \E c \in {"typecheck", "lint", "build-typecheck"}, sl \in CmdSlugs :
           CmdStart(c, sl, FALSE)
    \/ \E c \in TurboCommands, force \in BOOLEAN : CmdStart(c, "", force)
    \/ CmdCheck
    \/ CmdDeleteCache
    \/ \E item \in CachesOnDisk : RemovalCompletes(item)
    \/ CmdSkipGate
    \/ CallsGate /\ GateScan
    \/ GateInstallOk
    \/ GateInstallFails
    \/ \E n \in markersLeft : GateWriteMarker(n)
    \/ GateSkipBuild
    \/ \E c \in 0..MaxExitCode : GateBuild(c)
    \/ CmdGateReturns
    \/ CmdGateThrows
    \/ cmd = "typecheck" /\ cmdPc = "run" /\ TypecheckStart(cmdSlug)
    \/ cmd = "build-typecheck" /\ cmdPc = "run" /\ BuildStart(cmdSlug)
    \/ \E p \in TscPaths : CompilerRead(p)
    \/ \E args \in ExitArguments : CompilerExit(args)
    \/ \E args \in ExitArguments : CompilerExitAgain(args)
    \/ ImportResolves
    \/ ReplaceTscAliasPaths
    \/ \E f \in SummaryFiles : CompilerEmit(f)
    \/ TypecheckReturn
    \/ BuildReturn
    \/ CommandExit
    \/ \E c \in 0..MaxExitCode : CmdLint(c)
    \/ \E c \in 0..MaxExitCode : CmdBuild(c)
    \/ cmd = "turbo-typecheck" /\ cmdPc = "run" /\ TurboStart("typecheck", "full")
    \/ cmd = "turbo-lint" /\ cmdPc = "run" /\ TurboStart("lint", "full")
    \/ RunnerData
    \/ \E c \in 0..MaxExitCode : RunnerExit(c)
    \/ CmdTurboExit

SpecCmd == InitCmd /\ [][NextCmd]_vars

----------------------------------------------------------------------------
(* The specifications: the interception controller (a process in which     *)
(* patchEslint has run, with the compiler and the linter reading files),   *)
(* the installer gate, and the compiler wrappers                           *)

InitOfGate ==
    /\ ReadAtRest
    /\ TscAtRest
    /\ CmdAtRest
    /\ TurboAtRest
    /\ InitGate

SpecGate == InitOfGate /\ [][NextGate]_vars

SpecLookup == InitOfGate /\ [][NextLookup]_vars

\* a name in another scope with the last segment of @acme/core's
OtherScopeCore == <<"@other", "core">>

\* a workspace whose third package may be named @other/core
InitSlugs ==
    /\ ReadAtRest
    /\ TscAtRest
    /\ CmdAtRest
    /\ TurboAtRest
    /\ nodeModules \in SUBSET PackageDirs
    /\ metadata = [d \in PackageDirs |-> NoMetadata]
    /\ turboHash \in BOOLEAN
    /\ gatePc = "idle"
    /\ gateRuns = 0
    /\ packageNamesWithoutNodeModules = {}
    /\ markersLeft = {}
    /\ installLog = <<>>
    /\ buildLog = <<>>
    /\ gateInstalled = {}
    /\ lastCheck = NoCheck
    /\ \E webName \in {NameOf(webDir), OtherScopeCore},
          coreShape \in DependencyShapes(coreDir) :
           manifests = [d \in PackageDirs |->
               IF d = webDir
               THEN [Manifest(d, OnlyDependencies, NoExports) EXCEPT !.name = webName]
               ELSE IF d = coreDir THEN Manifest(d, coreShape, NoExports)
               ELSE Manifest(d, NoDependencies, NoExports)]

SpecSlugs == InitSlugs /\ [][NextGate]_vars

Init ==
    /\ GateAtRest
    /\ TscAtRest
    /\ CmdAtRest
    /\ TurboAtRest
    /\ InitRead

Next == NextRead

Spec == Init /\ [][Next]_vars

\* the queries go through every layer to the same answer: an outer layer
\* finds the synthetic file present below it and passes the call through
NextPatch ==
    \/ PatchEslint
    \/ \E p \in Paths : ExistsQuery(p)
    \/ \E p \in Paths : StatQuery(p)

SpecPatch == Init /\ [][NextPatch]_vars

SpecTsc == InitTsc /\ [][NextTsc]_vars

----------------------------------------------------------------------------
(* The interception controller: claims C1 - C6 *)

\* the non-excluded, non-stub files with a recognized source extension
SourceFiles ==
    { p \in Paths : /\ p \in onDisk
                    /\ ExtOf(p) \in {".ts", ".tsx", ".cts", ".mts"}
                    /\ ~IncludesNodeModules(p)
                    /\ Basename(p) # "tsconfig.lint.json" }

\* what alias rewriting makes of a file's text on disk: the rules of the
\* nearest tsconfig.json upward, or of its sibling tsconfig.typecheck.json
\* when there is one; no rules when there is no enclosing tsconfig.json
AliasRewritten(p) ==
    LET base == FindUp("tsconfig.json", Dirname(p))
        variant == Join(Dirname(base), "tsconfig.typecheck.json")
        rules == IF variant \in onDisk THEN "relative (typecheck paths)"
                 ELSE "relative (base paths)"
    IN  IF base = NoPath THEN contents[p]
        ELSE [i \in 1..Len(contents[p]) |->
                 IF contents[p][i] = "alias import" THEN rules ELSE contents[p][i]]

\* C1: after any call of the narrow interception has returned or thrown (and
\* no other is in flight), InterceptionContext is empty.
C1_ContextClearedOnEveryExit ==
    (lastNarrow \in {"returned", "threw"} /\ narrow = NoPath)
        => currentTypescriptSourceFile = NoPath

\* C2: context scoping. With InterceptionContext = A, a generic read of the
\* source file A returns its alias-rewritten text and a generic read of
\* another source file B returns B's text on disk, unchanged.
C2_ContextScoping ==
    \A A \in SourceFiles : \A B \in SourceFiles \ {A} :
        (currentTypescriptSourceFile = A /\ lastCall.op = "read") =>
            /\ lastCall.path = A =>
                   (lastCall.ok /\ lastCall.data = AliasRewritten(A))
            /\ lastCall.path = B =>
                   (lastCall.ok /\ lastCall.data = contents[B])

\* C2's case: the context is util.ts, index.ts holds an alias import under an
\* existing tsconfig.json, and the read of index.ts returned it untouched
C2_Witness ==
    /\ currentTypescriptSourceFile = utilTs
    /\ tsconfigA \in onDisk
    /\ contents[indexTs][1] = "alias import"
    /\ lastCall.op = "read"
    /\ lastCall.path = indexTs
    /\ lastCall.data = contents[indexTs]
    /\ AliasRewritten(indexTs) # contents[indexTs]

\* C3: every generic read of a source file issued outside any narrow read
\* (the linter's) returns the text on disk, and every generic read issued
\* inside the narrow read of that same path returns the alias-rewritten text.
C3_LinterUntouchedCompilerRewritten ==
    (lastCall.op = "read" /\ lastCall.path \in SourceFiles) =>
        /\ narrow = NoPath =>
               (lastCall.ok /\ lastCall.data = contents[lastCall.path])
        /\ narrow = lastCall.path =>
               (lastCall.ok /\ lastCall.data = AliasRewritten(lastCall.path))

\* C4: InterceptionContext is non-empty only while a narrow read is in
\* flight, and while one is in flight it equals the path of that read.
C4_ContextInvariant ==
    /\ currentTypescriptSourceFile # NoPath => narrow # NoPath
    /\ narrow # NoPath => currentTypescriptSourceFile = narrow

\* C5 as stated: a generic read of any path under node_modules returns what
\* the real read returns, unmodified.
C5_ExcludedReadUnmodified ==
    (lastCall.op = "read" /\ IncludesNodeModules(lastCall.path)) =>
        [ok |-> lastCall.ok, data |-> lastCall.data] = readFileSync(lastCall.path)

\* C5 amended: a generic read of any path under node_modules other than the
\* compiler library node_modules/typescript/lib/typescript.js returns what
\* the real read returns, whatever the context and the stub rule say; the
\* compiler library is returned with the narrow interception spliced in.
C5_ExcludedReadUnmodifiedButCompiler ==
    (lastCall.op = "read" /\ IncludesNodeModules(lastCall.path)) =>
        IF EndsWithTypescriptJs(lastCall.path)
        THEN /\ lastCall.ok = (lastCall.path \in onDisk)
             /\ lastCall.ok =>
                    lastCall.data = patchTypescript(contents[lastCall.path])
        ELSE [ok |-> lastCall.ok, data |-> lastCall.data]
                 = readFileSync(lastCall.path)

\* C5's case: a source file under node_modules is read while it is the
\* context, and its text comes back as it is on disk
C5_Witness ==
    /\ lastCall.op = "read"
    /\ lastCall.path = depIndexTs
    /\ currentTypescriptSourceFile = depIndexTs
    /\ lastCall.ok
    /\ lastCall.data = contents[depIndexTs]
    /\ contents[depIndexTs][1] = "alias import"

----------------------------------------------------------------------------
(* The installer gate and the readiness query: claim C7 *)

\* C7: readiness gating. For a package the gate installed with lifecycle
\* scripts skipped, shouldBeChecked returns false from the moment the gate has
\* written its marker until the marker is cleared.
C7_ProvisionalIsNotChecked ==
    (lastCheck.op = "check" /\ lastCheck.result # "threw"
        /\ getPackageDir(lastCheck.slug) \in gateInstalled)
        => lastCheck.result = "false"

----------------------------------------------------------------------------
(* The compiler wrappers: claims C8 - C10 *)

\* the exit code the compiler's call of process.exit stands for
CompilerExitCode ==
    IF compilerExitArg.args = <<>> THEN 0 ELSE compilerExitArg.args[1]

\* C8: whatever exit code the compiler passes to process.exit during summary
\* emission, the exit code buildTypecheckFolder returns is 0, and so is the
\* exit status of the build-typecheck command that exits with it.
C8_GenerateReportsZero ==
    (op = "build-typecheck" /\ opPc \in {"returned", "exited"})
        => /\ opResult = <<0>>
           /\ opPc = "exited" => exitStatus = <<0>>

\* C9: the exit code typecheck returns, and the exit status of the typecheck
\* command, is the code the compiler passed to process.exit, 0 when it passed
\* none.
C9_ValidatePropagates ==
    (op = "typecheck" /\ opPc \in {"returned", "exited"})
        => /\ compilerExitArg.called
           /\ opResult = <<CompilerExitCode>>
           /\ opPc = "exited" => exitStatus = <<CompilerExitCode>>

\* the typecheck command has exited with the non-zero code the compiler passed
C9_Witness ==
    /\ op = "typecheck"
    /\ opPc = "exited"
    /\ compilerExitArg = [called |-> TRUE, args |-> <<1>>]
    /\ opResult = <<1>>
    /\ exitStatus = <<1>>

\* a text with every '/src/' replaced by '/dist-typecheck/'
Substituted(text) ==
    [i \in DOMAIN text |->
        IF text[i] = "/src/" THEN "/dist-typecheck/" ELSE text[i]]

\* C10: while typecheck's compiler runs, a read of a path that is one of the
\* entry points declared by the packages' exports, and not under node_modules,
\* returns the file's text with '/src/' replaced by '/dist-typecheck/'; every
\* other read returns what the real read returns.
C10_SubstitutedIffEntryPoint ==
    (op = "typecheck" /\ lastCall.op = "read")
        => LET real == readFileSync(lastCall.path)
           IN  /\ lastCall.ok = real.ok
               /\ lastCall.data =
                      IF /\ real.ok
                         /\ lastCall.path \in FilePathsToBePatched
                         /\ ~IncludesNodeModules(lastCall.path)
                      THEN Substituted(real.data)
                      ELSE real.data

----------------------------------------------------------------------------
(* The entry-point set of typecheck: claim C11 *)

\* the entries of a package's export map: the values of its subpaths, or the
\* map of conditions itself
ExportEntries(packageDir) ==
    LET exports == manifests[packageDir].exports
    IN  CASE exports.shape = "subpaths" ->
                { exports.values[i] : i \in DOMAIN exports.values }
          [] exports.shape = "conditions" ->
                { [kind |-> "object", types |-> exports.types] }
          [] OTHER -> {}

\* for each package, its directory joined with each declared types path
DeclaredEntryPoints ==
    UNION { { JoinPath(d, entry.types) :
                entry \in { e \in ExportEntries(d) : e.types # NoPath } } :
            d \in PackageDirs }

----------------------------------------------------------------------------
(* The installer gate: claims C13 - C15 *)

\* the three dependency maps of the package are empty
HasNoDependencyOfAnyKind(packageDir) ==
    /\ manifests[packageDir].dependencies = {}
    /\ manifests[packageDir].devDependencies = {}
    /\ manifests[packageDir].peerDependencies = {}

\* C13: a package with no dependencies, devDependencies or peerDependencies
\* is never recorded by the scan, never in the filter of an install and never
\* given a marker, with or without a node_modules folder.
C13_NoDependenciesAlwaysReady ==
    \A d \in PackageDirs :
        HasNoDependencyOfAnyKind(d)
            => /\ manifests[d].name \notin packageNamesWithoutNodeModules
               /\ \A i \in DOMAIN installLog : manifests[d].name \notin installLog[i]
               /\ ~metadata[d].exists
               /\ d \notin gateInstalled

\* a gate run has installed and marked another package while a package without
\* dependencies has no node_modules folder
C13_Witness ==
    /\ gatePc = "build"
    /\ installLog # <<>>
    /\ gateInstalled # {}
    /\ \E d \in PackageDirs : HasNoDependencyOfAnyKind(d) /\ d \notin nodeModules

\* the names of the packages without node_modules folder that declare some
\* dependency
AbsentAndDependent ==
    { manifests[d].name :
        d \in { x \in PackageDirs :
                  x \notin nodeModules /\ ~HasNoDependencyOfAnyKind(x) } }

HadNodeModulesAtScan(d) ==
    /\ gatePc \in {"install", "markers", "build"}
    /\ d \in nodeModules
    /\ manifests[d].name \notin packageNamesWithoutNodeModules

\* C15: a gate run leaves a package that already had a node_modules folder as
\* it is: the package is not in the filter of the install, and its marker and
\* its node_modules folder are neither created, changed nor removed.
C15_ExistingLeftUntouched ==
    [][ \A d \in PackageDirs :
          HadNodeModulesAtScan(d)
              => /\ metadata'[d] = metadata[d]
                 /\ d \in nodeModules'
                 /\ installLog' # installLog
                        => manifests[d].name \notin installLog'[Len(installLog')] ]_vars

\* a run has installed and marked a package next to one that had its
\* node_modules folder and no marker
C15_Witness ==
    /\ gatePc = "build"
    /\ installLog # <<>>
    /\ gateInstalled # {}
    /\ gateRuns = 1
    /\ \E d \in PackageDirs :
           /\ HadNodeModulesAtScan(d)
           /\ ~HasNoDependencyOfAnyKind(d)
           /\ ~metadata[d].exists

----------------------------------------------------------------------------
(* The task runner's log: claim C18 *)

\* the lines of the runner's output that carry a task's prefix
TaskOutputLines == { i \in DOMAIN runnerOutput : runnerOutput[i].scope # "" }

\* how many times line i has been written to stdout
TimesWritten(i) == Cardinality({ k \in DOMAIN stdout : stdout[k] = i })

\* C18: in summary mode a task's output line is not written to stdout while
\* the runner runs, nor after a run that exits 0, and at most once after a run
\* that exits non-zero; in full mode every task output line received is on
\* stdout exactly once, also after the runner has exited.
C18_SummarizedLogging ==
    \A i \in TaskOutputLines :
        /\ (turboLogs = "summary" /\ turboPc = "running") => TimesWritten(i) = 0
        /\ (turboLogs = "summary" /\ turboPc = "returned")
               => TimesWritten(i) =
                     IF runnerLog[Len(runnerLog)].exitCode = 0 THEN 0 ELSE 1
        /\ (turboLogs = "full" /\ turboPc # "none" /\ i <= runnerSent)
               => TimesWritten(i) = 1

----------------------------------------------------------------------------
(* The commands: claims C12, C16, C17, C19 *)

\* C12: when a manifest has no name or an array for exports, the run aborts,
\* and nothing has been installed, no marker written, no summary build run
\* and no cache removed before it does.
C12_MalformedAbortsBeforeMutation ==
    (SomeNameMissing \/ SomeExportsIsArray)
        => /\ installLog = <<>>
           /\ \A d \in PackageDirs : ~metadata[d].exists
           /\ buildLog = <<>>
           /\ ~cacheRemoved
           /\ exitStatus # <<0>>

\* C16: when shouldPackageBeChecked is false the typecheck and lint commands
\* exit with 0, and neither the gate, nor the summary build, nor the compiler
\* or the linter has been invoked.
C16_SkippedNotFailed ==
    checked = "false"
        => /\ exitStatus = <<0>>
           /\ gateRuns = 0
           /\ gatePc = "idle"
           /\ installLog = <<>>
           /\ buildLog = <<>>
           /\ \A d \in PackageDirs : ~metadata[d].exists
           /\ op = "none"
           /\ ~linted
           /\ turboPc = "none"

\* typecheck of a package without node_modules, outside the task runner, has
\* been skipped
C16_Witness ==
    /\ cmd = "typecheck"
    /\ ~turboHash
    /\ cmdSlug = "web"
    /\ checked = "false"
    /\ cmdPc = "exited"
    /\ exitStatus = <<0>>

\* C17: the exit code of the task runner is what the orchestrating operation
\* returns and what the command exits with, a non-zero build inside the gate
\* is neither thrown nor lost, and no step runs the runner twice.
C17_RunnerExitCodePropagates ==
    /\ \A i \in DOMAIN runnerLog : runnerLog[i].result = <<runnerLog[i].exitCode>>
    /\ Len(runnerLog) <= 1
    /\ Len(buildLog) <= 1
    /\ (cmdPc = "exited" /\ runnerLog # <<>>)
           => exitStatus = <<runnerLog[1].exitCode>>
    /\ (buildLog # <<>> /\ buildLog[1] # 0)
           => /\ gatePc # "threw"
              /\ exitStatus # <<>> => exitStatus = <<buildLog[1]>>

\* the compiler validation of a package has begun
ValidationBegun ==
    \/ op = "typecheck"
    \/ turboTask = "typecheck" /\ turboPc # "none"

\* C19: when validation begins, by the typecheck command or by the runner of
\* turbo-typecheck, the gate has returned and, outside the task runner, the
\* summary build has run to its end; and the summary build starts only after
\* the gate's install and its marker writes.
C19_PipelineOrder ==
    /\ ValidationBegun
           => /\ gatePc \in {"idle", "done"}
              /\ gatePc = "idle" => (turboHash /\ cmd = "typecheck")
              /\ ~turboHash => Len(buildLog) = 1
    /\ (buildLog # <<>> /\ cmd # "turbo-build-typecheck")
           => /\ gatePc \in {"done", "threw"}
              /\ markersLeft = {}
              /\ packageNamesWithoutNodeModules # {}
                     => /\ installLog = <<packageNamesWithoutNodeModules>>
                        /\ \A n \in packageNamesWithoutNodeModules :
                               metadata[PackageNamed(n)].exists

\* the typecheck command compiles after a gate that installed, marked and
\* built
C19_Witness ==
    /\ cmd = "typecheck"
    /\ op = "typecheck"
    /\ opPc = "compiling"
    /\ installLog # <<>>
    /\ gateInstalled # {}
    /\ buildLog = <<0>>

----------------------------------------------------------------------------
(* The summary artifacts: claim C20 *)

\* the generation pass has ended: buildTypecheckFolder has returned or thrown,
\* or the process has ended under it
PassEnded ==
    /\ op = "build-typecheck"
    /\ opPc \in {"returned", "exited", "killed", "threw"}

\* C20: wherever a generation pass ends, normally, after a compiler failure or
\* by the end of the process, dist-typecheck holds either the whole newly
\* emitted and alias-post-processed set of files or the whole prior set.
C20_NoPartialArtifacts ==
    PassEnded
        => \/ \A f \in SummaryFiles : artifacts[f] = "processed"
           \/ \A f \in SummaryFiles : artifacts[f] = "prior"

----------------------------------------------------------------------------
(* The package lookups: claim C21 *)

\* C21: a lookup by a slug that is not the slug of a discovered workspace
\* package fails with the unknown-package error, whichever operation makes
\* it, and a directory comes back only for the slug of a discovered package.
C21_UnknownSlugFails ==
    lastCheck.op \in LookupFunctions
        => /\ lastCheck.slug \notin getPackageSlugs
                  => lastCheck.result = "threw: package not found"
           /\ lastCheck.result \in {"the package directory", "a made-up directory"}
                  => lastCheck.slug \in getPackageSlugs

----------------------------------------------------------------------------
(* The alias rules of a file: claims C22, C23 *)

\* the directories above a path, its own directory first
Ancestors(p) == { SubSeq(p, 1, n) : n \in 0..(Len(p) - 1) }

\* the tsconfig.json files on disk in the directories above a path
EnclosingBases(p) ==
    { Join(d, "tsconfig.json") : d \in Ancestors(p) } \cap onDisk

\* the configuration the alias rules of a file are taken from: the
\* tsconfig.json of the deepest directory above the file that holds one, or
\* the tsconfig.typecheck.json beside it when there is one
ExpectedConfig(p) ==
    LET base == CHOOSE b \in EnclosingBases(p) :
                    \A c \in EnclosingBases(p) : Len(c) <= Len(b)
        variant == Join(Dirname(base), "tsconfig.typecheck.json")
    IN  IF variant \in onDisk THEN variant ELSE base

\* the read that has just returned rewrote a source file
RewritingRead ==
    /\ lastCall.op = "read"
    /\ lastCall.path \in SourceFiles
    /\ currentTypescriptSourceFile = lastCall.path
    /\ EnclosingBases(lastCall.path) # {}

\* C22: a rewriting read uses the replacer of the nearest tsconfig.json found
\* upward, or of the tsconfig.typecheck.json beside it when that exists; over
\* any sequence of reads a replacer is constructed at most once per resolved
\* configuration path, and only for such a path, and a later read resolving
\* to the same path finds it memoized.
C22_ResolvedAndMemoized ==
    /\ RewritingRead
           => /\ ExpectedConfig(lastCall.path) \in tsConfigToFileReplacer
              /\ lastCall.data =
                     FileReplacer(ExpectedConfig(lastCall.path),
                                  contents[lastCall.path])
    /\ \A i, j \in DOMAIN constructed : constructed[i] = constructed[j] => i = j
    /\ { constructed[i] : i \in DOMAIN constructed } = tsConfigToFileReplacer
    /\ \A c \in tsConfigToFileReplacer :
           \E p \in SourceFiles :
               EnclosingBases(p) # {} /\ c = ExpectedConfig(p)

\* two replacers have been constructed, one for the root tsconfig.json and one
\* for the package's tsconfig.typecheck.json, and the read of a second file of
\* the package has used the memoized one
C22_Witness ==
    /\ constructed = <<tsconfigW, tsconfigTypecheckA>>
    /\ tsconfigA \in onDisk
    /\ lastCall.op = "read"
    /\ lastCall.path = utilTs
    /\ currentTypescriptSourceFile = utilTs
    /\ lastCall.data = <<"relative (typecheck paths)", "code">>

\* C23: a generic read of the source file that is the InterceptionContext,
\* with no tsconfig.json in any directory above it, returns the file's text
\* as it is on disk and throws nothing.
C23_NoConfigNoRewrite ==
    ( /\ lastCall.op = "read"
      /\ lastCall.path \in SourceFiles
      /\ currentTypescriptSourceFile = lastCall.path
      /\ EnclosingBases(lastCall.path) = {} )
        => /\ lastCall.ok
           /\ lastCall.data = contents[lastCall.path]

\* a source file with an alias import and no tsconfig.json above it was read
\* as the context and came back as it is on disk
C23_Witness ==
    /\ lastCall.op = "read"
    /\ lastCall.path = indexTs
    /\ currentTypescriptSourceFile = indexTs
    /\ tsconfigA \notin onDisk
    /\ tsconfigW \notin onDisk
    /\ contents[indexTs][1] = "alias import"
    /\ lastCall.ok
    /\ lastCall.data = contents[indexTs]

----------------------------------------------------------------------------
(* The generation pass: claims C24, C27 - C30 *)

SuppressedSources ==
    { p \in BuildPaths : /\ p \in onDisk
                         /\ ExtOf(p) \in tsExtensions
                         /\ ~IncludesNodeModules(p) }

\* a `// @ts-check` comment among the leading comments of a text
DirectiveInEffect(text) ==
    \E i \in DOMAIN text :
        /\ text[i] = TsCheckComment
        /\ \A j \in 1..(i - 1) :
               text[j] \in { InterpreterLine, TsNoCheckComment,
                             "/* not @ts-check */", "/* not @ts-nocheck */" }

\* C27: in a generation pass the content handed to the compiler for a
\* non-excluded source file has `// @ts-nocheck` as its first line, or as its
\* second line under the unchanged interpreter line when the file has one,
\* whatever the file holds, a `// @ts-check` comment below the top included;
\* and no `// @ts-check` directive is left in effect.
C27_SuppressionMarkerFirst ==
    ( /\ op = "build-typecheck"
      /\ lastCall.op = "read"
      /\ lastCall.path \in SuppressedSources )
        => LET text == contents[lastCall.path]
               given == lastCall.data
           IN  /\ lastCall.ok
               /\ IF StartsWithHash(text)
                  THEN /\ Len(given) >= 2
                       /\ given[1] = text[1]
                       /\ given[2] = TsNoCheckComment
                  ELSE /\ given # <<>>
                       /\ given[1] = TsNoCheckComment
               /\ ~DirectiveInEffect(given)

\* C28: in a generation pass a configuration file the compiler reads comes
\* back without its references and with its other fields as they are, and
\* the file on disk stays as it is; outside a generation pass a read of a
\* configuration file returns it with its references.
C28_ReferencesRemovedInPassOnly ==
    ( /\ lastCall.op = "read"
      /\ lastCall.path \in ConfigPaths \cap onDisk
      /\ ~ParseThrows(contents[lastCall.path]) )
        => /\ lastCall.ok
           /\ op = "build-typecheck"
                  => /\ \A i \in DOMAIN lastCall.data :
                            lastCall.data[i] # "references"
                     /\ lastCall.data =
                            SelectSeq(contents[lastCall.path],
                                      LAMBDA t : t \notin {"references", "// comment"})
           /\ op # "build-typecheck" => lastCall.data = contents[lastCall.path]

\* the exit capture was resolved with 1 by the read wrapper, not by the compiler
ParseFailureCaptured ==
    /\ exitCodePromise = <<1>>
    /\ ~compilerExitArg.called

\* C29: in a generation pass the read of a configuration file that cannot be
\* parsed does not return content to the compiler, and the pass ends with
\* exit code 1: buildTypecheckFolder does not return 0 for it.
C29_UnparsableConfigAborts ==
    /\ ( /\ op = "build-typecheck"
         /\ lastCall.op = "read"
         /\ lastCall.path \in ConfigPaths \cap onDisk )
           => ~ParseThrows(contents[lastCall.path])
    /\ ( /\ op = "build-typecheck"
         /\ ParseFailureCaptured
         /\ opPc \in {"returned", "exited"} )
           => /\ opResult # <<0>>
              /\ opPc = "exited" => exitStatus = <<1>>

\* C30: in generate, replaceTscAliasPaths starts only after the compiler has
\* called process.exit and the capture has recorded its exit code.
C30_PostProcessAfterCompilerExit ==
    (op = "build-typecheck" /\ opPc \in {"postprocessed", "returned", "exited"})
        => postProcessedAfterExit

----------------------------------------------------------------------------
(* The forced cache clear: claims C25, C26 *)

\* C25: once deleteCachedTypecheckFiles has resolved in a turbo-* command run
\* with --force, and while the command goes on to its runner, every removal
\* it issued has completed: none is in flight, and the runner's cache
\* directory and every package's *.tsbuildinfo files, dist-typecheck and
\* .turbo directories are gone.
C25_ForcedClearCompletes ==
    ( /\ cmd \in TurboCommands
      /\ cacheRemoved
      /\ cmdPc \in {"setup", "run"} )
        => /\ removalsInFlight = {}
           /\ RunnerCacheDir \notin caches
           /\ \A d \in PackageDirs : TypecheckCacheGlob(d) = {}

\* C26: when turbo-lint run with --force has started its runner, no package
\* has an *.eslintcache file or a .turbo directory and the runner's cache
\* directory is gone.
C26_ForcedLintClear ==
    ( /\ cmd = "turbo-lint"
      /\ cacheRemoved
      /\ turboPc # "none" )
        => /\ RunnerCacheDir \notin caches
           /\ \A d \in PackageDirs : LintCacheGlob(d) = {}

----------------------------------------------------------------------------
(* The gate under the task runner: claim C31 *)

\* C31: a typecheck or lint command run with TURBO_HASH set runs no gate: no
\* install, no marker, no summary build; a turbo-typecheck or turbo-lint
\* command whose runner has been started has run the gate exactly once, to
\* its end; and a gate has started the summary build only with TURBO_HASH
\* unset.
C31_NoGateUnderRunner ==
    /\ (cmd \in {"typecheck", "lint"} /\ turboHash)
           => /\ gateRuns = 0
              /\ gatePc = "idle"
              /\ installLog = <<>>
              /\ gateInstalled = {}
              /\ metadata = [d \in PackageDirs |-> NoMetadata]
              /\ buildLog = <<>>
    /\ (cmd \in {"turbo-typecheck", "turbo-lint"} /\ turboPc # "none")
           => /\ gateRuns = 1
              /\ gatePc = "done"
    /\ (cmd # "turbo-build-typecheck" /\ buildLog # <<>>) => ~turboHash

\* a typecheck command run under the task runner for a package that is ready
\* has run its compiler and exited, the workspace missing a node_modules
\* folder the gate would have installed
C31_Witness ==
    /\ cmd = "typecheck"
    /\ turboHash
    /\ checked = "true"
    /\ op = "typecheck"
    /\ opPc = "exited"
    /\ exitStatus # <<>>
    /\ NamesWithoutNodeModules # {}
    /\ gateRuns = 0

----------------------------------------------------------------------------
(* Readiness: claim C32 *)

\* the scan of the gate does not record the package for installation: it has
\* a node_modules folder, or declares no dependency
GateTreatsAsReady(packageDir) ==
    \/ packageDir \in nodeModules
    \/ DeclaresNoDependencies(manifests[packageDir])

\* C32: after a gate run, shouldPackageBeChecked is true for every package
\* that the gate treats as ready and that carries no provisional marker, a
\* package with no declared dependency and no node_modules folder included.
C32_ReadinessConsistency ==
    ( /\ gatePc = "done"
      /\ lastCheck.op = "check"
      /\ getPackageDir(lastCheck.slug) # NoPath
      /\ GateTreatsAsReady(getPackageDir(lastCheck.slug))
      /\ ~metadata[getPackageDir(lastCheck.slug)].exists )
        => lastCheck.result = "true"

----------------------------------------------------------------------------
(* The calls of patchEslint: claim C33 *)

\* C33: however many times patchEslint is called in a process, fs.readFileSync,
\* fs.existsSync and fs.statSync are wrapped by exactly one layer.
C33_PatchedAtMostOnce == patchCalls >= 1 => wrapLayers = 1

----------------------------------------------------------------------------
(* The synthetic tsconfig.lint.json across the three primitives: claim C34 *)

\* C34: for a path of a missing tsconfig.lint.json that the wrapped
\* fs.existsSync reports as present, a path under node_modules included, the
\* wrapped fs.statSync succeeds and the wrapped fs.readFileSync returns the
\* synthesized document.
C34_PrimitivesAgreeOnStub ==
    ( /\ lastCall.op \in {"stat", "read"}
      /\ Basename(lastCall.path) = "tsconfig.lint.json"
      /\ lastCall.path \notin onDisk
      /\ ExistsSyncWrapper(lastCall.path) )
        => /\ lastCall.ok
           /\ lastCall.op = "read" => lastCall.data = StubDocument

----------------------------------------------------------------------------
(* Slugs: claim C35 *)

\* C35: every discovered package is the package its slug resolves to, so no
\* two packages share a slug; and the gate writes its markers in the
\* packages it recorded by name.
C35_SlugsOneToOne ==
    /\ \A d \in PackageDirs :
           getPackageDir(getPackageSlug(manifests[d].name)) = d
    /\ gateInstalled \subseteq
           { PackageNamed(n) : n \in packageNamesWithoutNodeModules }

----------------------------------------------------------------------------
(* The process.exit capture: claim C36 *)

----------------------------------------------------------------------------
(* C37 *)

\* C37: a gate run that starts where a gate run has completed records no
\* package for installation and goes straight to the build step, so it makes
\* no install and writes no marker.
C37_GateIdempotent ==
    [][ (gatePc = "done" /\ gateRuns' = gateRuns + 1)
            => /\ packageNamesWithoutNodeModules' = {}
               /\ markersLeft' = {}
               /\ gatePc' = "build"
               /\ installLog' = installLog
               /\ metadata' = metadata ]_vars

\* the second run has scanned after a first run that installed, wrote its
\* markers and built
C37_Witness ==
    /\ gateRuns = 2
    /\ gatePc = "build"
    /\ ~turboHash
    /\ buildLog = <<0>>
    /\ Len(installLog) = 1
    /\ gateInstalled # {}
    /\ packageNamesWithoutNodeModules = {}


----------------------------------------------------------------------------
(* C38 *)

\* C38: the step in which the batched install fails writes no marker and
\* starts no build, and ends the gate run; where a gate run has thrown, no
\* install and no build is made and the gate writes no marker, until a new
\* run starts.
C38_InstallFailureEndsRun ==
    /\ [][ (gatePc = "install" /\ gatePc' = "threw")
              => /\ metadata' = metadata
                 /\ gateInstalled' = gateInstalled
                 /\ markersLeft' = {}
                 /\ buildLog' = buildLog
                 /\ nodeModules \subseteq nodeModules' ]_vars
    /\ [][ gatePc = "threw"
              => /\ installLog' = installLog
                 /\ buildLog' = buildLog
                 /\ gateInstalled' \subseteq gateInstalled
                 /\ gatePc' \in {"threw", "install", "build"} ]_vars

\* the first run's install has failed after pnpm made the folder of one of
\* the recorded packages and not that of another
C38_Witness ==
    /\ gateRuns = 1
    /\ gatePc = "threw"
    /\ Len(installLog) = 1
    /\ buildLog = <<>>
    /\ \A d \in PackageDirs : metadata[d] = NoMetadata
    /\ \E n \in packageNamesWithoutNodeModules : PackageNamed(n) \in nodeModules
    /\ \E n \in packageNamesWithoutNodeModules : PackageNamed(n) \notin nodeModules

============================================================================
